---- MODULE Spec2Model ----
(***************************************************************************)
(* Moderation rule engine of src/bot.py: the warning escalation of         *)
(* warn_command / warn_user_internal, the flood detector antiflood_check,  *)
(* and the content pipeline that message_handler_main runs for every       *)
(* non-command message (antiflood_check, antilink_check, check_antispam,   *)
(* blacklist_handler, in that order).                                      *)
(*                                                                         *)
(* A handler is one atomic action.  Inside a handler the database rows and *)
(* the platform state are threaded through a record h ("handler state");   *)
(* h.raised models a Python exception that propagates until the enclosing  *)
(* try/except catches it.  Every call on the chat platform may fail: its   *)
(* outcome is read from an oracle o, a sequence of booleans chosen by the  *)
(* environment, one entry per call in the order the calls are made.        *)
(***************************************************************************)
EXTENDS Integers, Sequences, FiniteSets, TLC

(***************************************************************************)
(* Universe                                                                *)
(***************************************************************************)
Chats == {"c1", "c2", "c3"}
Feds == {"f1", "f2"}
Users == {"u1", "u2", "adm", "owner"}
Keys == Chats \X Users

OWNER_ID == "owner"
SUDO_USERS == {}
BOT_ID == "bot"

NoRow == [exists |-> FALSE]

\* Words a message text can contain.  "http" stands for any text matched by
\* one of the link patterns of antilink_check; the others are plain words.
Tokens == {"http", "spam"}

LOCK_TYPES == {"text", "sticker", "url", "all"}

\* The column defaults of table chats.
DefaultChatRow ==
    [exists            |-> TRUE,
     antiflood_enabled |-> FALSE,
     antiflood_limit   |-> 10,
     antiflood_action  |-> "mute",
     antispam_enabled  |-> FALSE,
     antilink_enabled  |-> FALSE,
     antilink_action   |-> "warn",
     locked_types      |-> {},
     warn_limit        |-> 3,
     warn_action       |-> "ban",
     welcome_enabled   |-> TRUE,
     captcha_enabled   |-> FALSE,
     captcha_type      |-> "button"]

VARIABLES
    chats,          \* table chats:         chat -> row or NoRow
    warnings,       \* table warnings:      key -> rows in insertion order
    flood_control,  \* table flood_control: key -> row or NoRow
    blacklist,      \* table blacklist:     chat -> rows in insertion order
    approvals,      \* table approvals:     set of rows
    gbans,          \* table gbans:         set of users
    status,         \* platform: key -> status reported by get_chat_member
    now,            \* wall clock, in seconds
    last,           \* observation: the last handler run and what it did
    hist,           \* observation: counters over the run
    proc,           \* handlers in flight, where handlers are interleaved
    federations,    \* table federations:   fed_id -> row or NoRow
    fed_chats       \* table fed_chats:     chat -> fed_id or "none"

fedvars == <<federations, fed_chats>>

vars == <<chats, warnings, flood_control, blacklist, approvals, gbans,
          status, now, last, hist, proc, fedvars>>

(***************************************************************************)
(* Platform calls and exceptions                                           *)
(***************************************************************************)
\* The outcome of the i-th platform call of a handler.
Outcome(o, i) == IF i <= Len(o) THEN o[i] ELSE TRUE

\* Table approvals has a row for the pair.
IsApproved(c, u) ==
    \E r \in approvals : r.chat_id = c /\ r.user_id = u

\* The INSERT of approve_command were it ON CONFLICT DO UPDATE.
ApproveRows_overwrite(rows, c, u, by) ==
    {r \in rows : ~(r.chat_id = c /\ r.user_id = u)}
        \cup {[chat_id |-> c, user_id |-> u, approved_by |-> by]}

\* approve_command: INSERT INTO approvals ... ON CONFLICT DO NOTHING.
ApproveRows(rows, c, u, by) ==
    IF \E r \in rows : r.chat_id = c /\ r.user_id = u
    THEN rows
    ELSE rows \cup {[chat_id |-> c, user_id |-> u, approved_by |-> by]}

\* disapprove_command: DELETE FROM approvals WHERE chat_id, user_id.
DisapproveRows(rows, c, u) ==
    {r \in rows : ~(r.chat_id = c /\ r.user_id = u)}

\* All oracles of n calls.
Oracles(n) == [1..n -> BOOLEAN]

Ev(name, ok) == [ev |-> name, ok |-> ok]

\* A handler starts from the stored tables and the platform state.
Begin ==
    [warnings      |-> warnings,
     flood_control |-> flood_control,
     status        |-> status,
     trace         |-> <<>>,
     n             |-> 0,
     raised        |-> FALSE,
     deleted       |-> FALSE]

\* A step the code takes that is recorded in the trace and cannot change
\* what the handler does next: a decision, a statement on the database, or
\* a reply sent outside every try block as the handler's last statement
\* (whether it is delivered or raises, the tables and the platform state
\* stay as they are).
Note(h, name) ==
    IF h.raised THEN h ELSE [h EXCEPT !.trace = Append(@, Ev(name, TRUE))]

\* What the platform refuses whatever the network does: an administrator
\* cannot be banned or restricted by the bot, and a message that is already
\* deleted cannot be deleted again ("message to delete not found").
\* "restrict_chat_member_all" is restrict_chat_member with every permission
\* granted: it lifts a restriction.
PlatformRefuses(h, api, c, u) ==
    \/ /\ api \in {"ban_chat_member", "restrict_chat_member",
                    "restrict_chat_member_all"}
       /\ h.status[<<c, u>>] \in {"creator", "administrator"}
    \/ /\ api = "delete_message"
       /\ h.deleted

StatusAfter(api, old) ==
    CASE api = "ban_chat_member"      -> "kicked"
      [] api = "unban_chat_member"    -> "left"
      [] api = "restrict_chat_member" -> "restricted"
      [] api = "restrict_chat_member_all" -> "member"
      [] OTHER                        -> old

\* One call on the platform: skipped while an exception propagates;
\* otherwise it succeeds and takes effect, or raises.
Call(h, api, c, u, o) ==
    IF h.raised THEN h
    ELSE LET ok == Outcome(o, h.n + 1) /\ ~PlatformRefuses(h, api, c, u)
         IN  [h EXCEPT !.n = @ + 1,
                       !.trace = Append(@, Ev(api, ok)),
                       !.raised = ~ok,
                       !.status[<<c, u>>] =
                           IF ok THEN StatusAfter(api, @) ELSE @,
                       !.deleted =
                           IF ok /\ api = "delete_message" THEN TRUE ELSE @]

\* The trace has a step of that name.
Has(tr, name) == \E i \in 1..Len(tr) : tr[i].ev = name

\* except: pass
Caught(h) == [h EXCEPT !.raised = FALSE]

is_owner(uid) == uid = OWNER_ID

is_sudo(uid) == uid \in SUDO_USERS \/ is_owner(uid)

\* is_admin were it to grant the role when the query raises.
is_admin_fail_open(h, c, uid, q) ==
    \/ is_sudo(uid)
    \/ ~q
    \/ h.status[<<c, uid>>] \in {"creator", "administrator"}

\* is_admin for a group chat; q: get_chat_member answered.
is_admin(h, c, uid, q) ==
    \/ is_sudo(uid)
    \/ q /\ h.status[<<c, uid>>] \in {"creator", "administrator"}

(***************************************************************************)
(* Warning escalation                                                      *)
(***************************************************************************)
WarnLimitOf(c) == IF chats[c].exists THEN chats[c].warn_limit ELSE 3

WarnActionOf(c) == IF chats[c].exists THEN chats[c].warn_action ELSE "ban"

InsertWarning(h, c, u, by) ==
    IF h.raised THEN h
    ELSE Note([h EXCEPT !.warnings[<<c, u>>] =
                            Append(@, [warned_by |-> by])],
              "insert_warning")

\* DeleteWarnings were its DELETE to select by user_id alone.
DeleteWarnings_any_chat(h, c, u) ==
    IF h.raised THEN h
    ELSE Note([h EXCEPT !.warnings =
                  [k \in Keys |-> IF k[2] = u THEN <<>> ELSE @[k]]],
              "delete_warnings")

DeleteWarnings(h, c, u) ==
    IF h.raised THEN h
    ELSE Note([h EXCEPT !.warnings[<<c, u>>] = <<>>], "delete_warnings")

\* ban / kick (ban, then unban) / mute, as the escalation and the flood
\* detector issue them.
Punish(h, action, c, u, o) ==
    CASE action = "ban"  -> Call(h, "ban_chat_member", c, u, o)
      [] action = "kick" -> Call(Call(h, "ban_chat_member", c, u, o),
                                 "unban_chat_member", c, u, o)
      [] action = "mute" -> Call(h, "restrict_chat_member", c, u, o)
      [] OTHER           -> h

\* warn_user_internal were it to delete the warnings of the key although
\* the warn action raised.
warn_user_internal_resets(h, c, u, o) ==
    LET h1 == InsertWarning(h, c, u, BOT_ID)
        count == Len(h1.warnings[<<c, u>>])
    IN  IF h.raised THEN h
        ELSE IF count >= WarnLimitOf(c)
        THEN DeleteWarnings(
                 Caught(Punish(Note(h1, "escalate"), WarnActionOf(c), c, u,
                               o)),
                 c, u)
        ELSE h1

\* warn_user_internal: the warn path of the pipeline.
warn_user_internal(h, c, u, o) ==
    LET h1 == InsertWarning(h, c, u, BOT_ID)
        count == Len(h1.warnings[<<c, u>>])
    IN  IF h.raised THEN h
        ELSE IF count >= WarnLimitOf(c)
        THEN Caught(DeleteWarnings(
                 Punish(Note(h1, "escalate"), WarnActionOf(c), c, u, o),
                 c, u))
        ELSE h1

\* The escalation branch of warn_command: an unknown action bans.
WarnCommandEscalate(h, c, u, o) ==
    LET action == IF WarnActionOf(c) \in {"ban", "kick", "mute"}
                  THEN WarnActionOf(c) ELSE "ban"
        h1 == DeleteWarnings(Punish(Note(h, "escalate"), action, c, u, o),
                             c, u)
        h2 == Call(h1, "reply_escalated", c, u, o)
    IN  IF h2.raised
        THEN Note(Caught(h2), "reply_failed")
        ELSE h2

\* warn_command that spares an approved target.
warn_command_spares_approved(h, c, actor, target, qa, qt, o) ==
    IF ~is_admin(h, c, actor, qa)
    THEN Note(h, "reply_admin_only")
    ELSE IF target = BOT_ID \/ is_admin(h, c, target, qt)
    THEN Note(h, "reply_cant_warn")
    ELSE IF IsApproved(c, target)
    THEN Note(h, "reply_approved")
    ELSE LET h1 == InsertWarning(h, c, target, actor)
             current == Len(h1.warnings[<<c, target>>])
         IN  IF current >= WarnLimitOf(c)
             THEN WarnCommandEscalate(h1, c, target, o)
             ELSE Note(h1, "reply_warning")

\* warn_command behind @admin_only, for an actor and a target of chat c;
\* qa, qt: the role queries for the actor and the target were answered.
warn_command(h, c, actor, target, qa, qt, o) ==
    IF ~is_admin(h, c, actor, qa)
    THEN Note(h, "reply_admin_only")
    ELSE IF target = BOT_ID \/ is_admin(h, c, target, qt)
    THEN Note(h, "reply_cant_warn")
    ELSE LET h1 == InsertWarning(h, c, target, actor)
             current == Len(h1.warnings[<<c, target>>])
         IN  IF current >= WarnLimitOf(c)
             THEN WarnCommandEscalate(h1, c, target, o)
             ELSE Note(h1, "reply_warning")

\* ban_command behind @admin_only; qa, qt: the role queries for the actor
\* and the target were answered; qr: can_restrict found the bot allowed to
\* restrict members.
ban_command(h, c, actor, target, qa, qr, qt, o) ==
    IF ~is_admin(h, c, actor, qa)
    THEN Note(h, "reply_admin_only")
    ELSE IF ~qr
    THEN Note(h, "reply_no_permission")
    ELSE IF target = BOT_ID \/ is_admin(h, c, target, qt)
    THEN Note(h, "reply_cant_ban")
    ELSE LET h1 == Note(Note(Call(h, "ban_chat_member", c, target, o),
                             "insert_banned_users"),
                        "reply_banned")
         IN  IF h1.raised THEN Note(Caught(h1), "reply_failed") ELSE h1

\* unwarn_command were it to delete the oldest warning of the key.
unwarn_command_oldest(h, c, actor, target, qa, o) ==
    IF ~is_admin(h, c, actor, qa)
    THEN Note(h, "reply_admin_only")
    ELSE IF h.warnings[<<c, target>>] = <<>>
    THEN Note(h, "reply_no_warnings")
    ELSE Note(Note([h EXCEPT !.warnings[<<c, target>>] = Tail(@)],
                   "delete_last_warning"),
              "reply_removed")

\* unwarn_command: deletes the most recent warning of the key (the rows of
\* a key are kept in the order of created_at).
unwarn_command(h, c, actor, target, qa, o) ==
    IF ~is_admin(h, c, actor, qa)
    THEN Note(h, "reply_admin_only")
    ELSE IF h.warnings[<<c, target>>] = <<>>
    THEN Note(h, "reply_no_warnings")
    ELSE Note(Note([h EXCEPT !.warnings[<<c, target>>] =
                                 SubSeq(@, 1, Len(@) - 1)],
                   "delete_last_warning"),
              "reply_removed")

\* clearwarns_command: deletes every warning of the key.
clearwarns_command(h, c, actor, target, qa, o) ==
    IF ~is_admin(h, c, actor, qa)
    THEN Note(h, "reply_admin_only")
    ELSE Note(DeleteWarnings(h, c, target), "reply_cleared")

Max(a, b) == IF a >= b THEN a ELSE b

Min(a, b) == IF a <= b THEN a ELSE b

\* setwarnlimit_command with a numeric argument: the row of chats after it.
\* UPDATE changes nothing when the chat has no row.
SetWarnLimitRow(row, arg) ==
    IF row.exists
    THEN [row EXCEPT !.warn_limit = Max(1, Min(10, arg))]
    ELSE row

\* setwarnaction_command with an argument among ban, kick, mute.
SetWarnActionRow(row, arg) ==
    IF row.exists THEN [row EXCEPT !.warn_action = arg] ELSE row

\* The largest warn limit setwarnlimit_command stores.
WARN_LIMIT_MAX == 10

\* str.lower over the arguments the model sends.
Lower(s) == IF s = "Mute" THEN "mute" ELSE s

\* setflood_command with a numeric argument: the row of chats after it.
SetFloodRow(row, arg) ==
    IF row.exists THEN [row EXCEPT !.antiflood_limit = arg] ELSE row

\* setfloodaction_command with an argument among ban, kick, mute.
SetFloodActionRow(row, arg) ==
    IF row.exists THEN [row EXCEPT !.antiflood_action = arg] ELSE row

\* An argument of a command: whether str.isdigit holds of it, and int of
\* it when it does.
NoDigits == [isdigit |-> FALSE, int |-> 0]

Digits(n) == [isdigit |-> TRUE, int |-> n]

\* The row of chats after setwarnlimit_command with argument arg.
setwarnlimit_command(row, arg) ==
    IF ~arg.isdigit THEN row ELSE SetWarnLimitRow(row, arg.int)

\* The row of chats after setflood_command with argument arg.
setflood_command(row, arg) ==
    IF ~arg.isdigit THEN row ELSE SetFloodRow(row, arg.int)

\* The row of chats after setwarnaction_command with argument arg.
setwarnaction_command(row, arg) ==
    IF Lower(arg) \notin {"ban", "kick", "mute"} THEN row
    ELSE SetWarnActionRow(row, Lower(arg))

\* The row of chats after setfloodaction_command with argument arg.
setfloodaction_command(row, arg) ==
    IF Lower(arg) \notin {"ban", "kick", "mute"} THEN row
    ELSE SetFloodActionRow(row, Lower(arg))

(***************************************************************************)
(* Flood detector                                                          *)
(***************************************************************************)
FLOOD_WINDOW == 5

FloodArmed(c) == chats[c].exists /\ chats[c].antiflood_enabled

\* The message handled at time t brings the count of the key to the limit
\* inside the window: antiflood_check takes its action branch.
FloodDue(c, u, t) ==
    LET flood == flood_control[<<c, u>>]
    IN  /\ FloodArmed(c)
        /\ flood.exists
        /\ t - flood.first_message_time < FLOOD_WINDOW
        /\ flood.message_count + 1 >= chats[c].antiflood_limit

\* antiflood_check for a message of user u in chat c; t is what
\* datetime.now() returns.
antiflood_check(h, c, u, t, q, o) ==
    LET k == <<c, u>>
        flood == h.flood_control[k]
        new_count == flood.message_count + 1
        h1 == [h EXCEPT !.flood_control[k].message_count = new_count]
        fire == Call(Punish(Note(h1, "flood"), chats[c].antiflood_action,
                            c, u, o),
                     "send_message", c, u, o)
    IN  IF is_admin(h, c, u, q) \/ ~FloodArmed(c) THEN h
        ELSE IF ~flood.exists
        THEN [h EXCEPT !.flood_control[k] =
                 [exists |-> TRUE, message_count |-> 1,
                  first_message_time |-> t]]
        ELSE IF t - flood.first_message_time < FLOOD_WINDOW
        THEN IF new_count >= chats[c].antiflood_limit
             THEN IF fire.raised THEN Caught(fire)
                  ELSE [fire EXCEPT !.flood_control[k] = NoRow]
             ELSE h1
        ELSE [h EXCEPT !.flood_control[k] =
                 [exists |-> TRUE, message_count |-> 1,
                  first_message_time |-> t]]

(***************************************************************************)
(* Content pipeline                                                        *)
(***************************************************************************)
\* re.search of the link patterns over the text.
HasLink(text) == "http" \in text

\* The action a content stage takes once it has deleted the message.
ContentAction(h, action, c, u, o) ==
    CASE action = "warn" -> warn_user_internal(h, c, u, o)
      [] action = "kick" -> Call(Call(h, "ban_chat_member", c, u, o),
                                 "unban_chat_member", c, u, o)
      [] action = "ban"  -> Call(h, "ban_chat_member", c, u, o)
      [] OTHER           -> h

\* antilink_check without the return for administrators.
antilink_check_everyone(h, c, u, msg, q, o) ==
    IF ~chats[c].exists \/ ~chats[c].antilink_enabled THEN h
    ELSE IF HasLink(msg.text)
    THEN Caught(ContentAction(
             Call(Note(h, "antilink"), "delete_message", c, u, o),
             chats[c].antilink_action, c, u, o))
    ELSE h

antilink_check(h, c, u, msg, q, o) ==
    IF is_admin(h, c, u, q) THEN h
    ELSE IF ~chats[c].exists \/ ~chats[c].antilink_enabled THEN h
    ELSE IF HasLink(msg.text)
    THEN Caught(ContentAction(
             Call(Note(h, "antilink"), "delete_message", c, u, o),
             chats[c].antilink_action, c, u, o))
    ELSE h

check_antispam(h, c, u, q, o) ==
    IF is_admin(h, c, u, q) THEN h
    ELSE IF ~chats[c].exists \/ ~chats[c].antispam_enabled THEN h
    ELSE IF u \in gbans
    THEN Caught(Call(Call(Note(h, "antispam"), "ban_chat_member", c, u, o),
                     "delete_message", c, u, o))
    ELSE h

\* The rows of the chat's blacklist whose trigger occurs in the text, in
\* the order the SELECT returns them.
RECURSIVE FirstMatch(_, _)
FirstMatch(rows, text) ==
    IF rows = <<>> THEN NoRow
    ELSE IF Head(rows).trigger_word \in text
    THEN [exists |-> TRUE, action |-> Head(rows).action,
          trigger_word |-> Head(rows).trigger_word]
    ELSE FirstMatch(Tail(rows), text)

\* blacklist_handler were its action not to wait for the deletion.
blacklist_handler_acts_anyway(h, c, u, msg, q, o) ==
    LET item == FirstMatch(blacklist[c], msg.text)
    IN  IF is_admin(h, c, u, q) THEN h
        ELSE IF msg.text = {} THEN h
        ELSE IF item.exists
        THEN Caught(ContentAction(
                 Caught(Call(Note(h, "blacklist"), "delete_message", c, u, o)),
                 item.action, c, u, o))
        ELSE h

blacklist_handler(h, c, u, msg, q, o) ==
    LET item == FirstMatch(blacklist[c], msg.text)
    IN  IF is_admin(h, c, u, q) THEN h
        ELSE IF msg.text = {} THEN h
        ELSE IF item.exists
        THEN Caught(ContentAction(
                 Call(Note(h, "blacklist"), "delete_message", c, u, o),
                 item.action, c, u, o))
        ELSE h

\* The elif chain of lock_message_handler over the locked types.
should_delete(locked, msg) ==
    \/ "all" \in locked
    \/ "text" \in locked /\ msg.ctype = "text"
    \/ "sticker" \in locked /\ msg.ctype = "sticker"
    \/ "url" \in locked /\ HasLink(msg.text)

\* lock_command and unlock_command with a valid type: the row after them.
LockRow(row, lock_type) ==
    IF row.exists
    THEN [row EXCEPT !.locked_types =
             IF lock_type = "all" THEN LOCK_TYPES ELSE @ \cup {lock_type}]
    ELSE row

UnlockRow(row, lock_type) ==
    IF row.exists
    THEN [row EXCEPT !.locked_types =
             IF lock_type = "all" THEN {} ELSE @ \ {lock_type}]
    ELSE row

\* toggle_antilink_command
ToggleAntilinkRow(row) ==
    IF row.exists THEN [row EXCEPT !.antilink_enabled = ~@] ELSE row

\* blacklistaction_command: one UPDATE over every row of the chat.
SetBlacklistAction(rows, arg) ==
    [i \in 1..Len(rows) |-> [rows[i] EXCEPT !.action = arg]]

\* lock_message_handler ("Enforce locks"): deletes a message whose content
\* type is locked.  No handler is registered for it and message_handler_main
\* does not call it.
lock_message_handler(h, c, u, msg, q, o) ==
    LET locked == chats[c].locked_types
    IN  IF is_admin(h, c, u, q) THEN h
        ELSE IF ~chats[c].exists THEN h
        ELSE IF locked = {} THEN h
        ELSE IF should_delete(locked, msg)
        THEN Caught(Call(Note(h, "lock"), "delete_message", c, u, o))
        ELSE h

\* message_handler_main, the one handler of non-command messages.
\* track_messages and filter_handler, which it also calls, write only the
\* message counters and send the auto-replies: no stage below reads them.
\* rq: which of the four role queries were answered.
\* message_handler_main were it to stop once the flood action was taken.
message_handler_main_flood_first(h, c, u, msg, t, rq, o) ==
    LET h1 == antiflood_check(h, c, u, t, rq.flood, o)
    IN  IF Has(h1.trace, "flood") THEN h1
        ELSE blacklist_handler(
                 check_antispam(
                     antilink_check(h1, c, u, msg, rq.link, o),
                     c, u, rq.spam, o),
                 c, u, msg, rq.bl, o)

message_handler_main(h, c, u, msg, t, rq, o) ==
    blacklist_handler(
        check_antispam(
            antilink_check(
                antiflood_check(h, c, u, t, rq.flood, o),
                c, u, msg, rq.link, o),
            c, u, rq.spam, o),
        c, u, msg, rq.bl, o)

(***************************************************************************)
(* Federations                                                             *)
(***************************************************************************)
\* The order in which SELECT returns the chats.
ChatSeq == <<"c1", "c2", "c3">>

\* SELECT chat_id FROM fed_chats WHERE fed_id = f
MemberChats(f) == SelectSeq(ChatSeq, LAMBDA c : fed_chats[c] = f)

\* The row newfed_command inserts.
NewFedRow(owner) ==
    [exists |-> TRUE, owner_id |-> owner, admins |-> {},
     banned_users |-> {}]

\* The actor passes the check of fban_command and funban_command: the
\* chat is in a federation whose owner or admin the actor is.
FedAuthorized(c, actor) ==
    /\ fed_chats[c] # "none"
    /\ federations[fed_chats[c]].exists
    /\ \/ actor = federations[fed_chats[c]].owner_id
       \/ actor \in federations[fed_chats[c]].admins

\* The INSERT of joinfed_command were it ON CONFLICT DO NOTHING.
JoinFedChats_first_wins(fc, c, f) ==
    IF fc[c] = "none" THEN [fc EXCEPT ![c] = f] ELSE fc

\* joinfed_command: INSERT INTO fed_chats ... ON CONFLICT (chat_id) DO
\* UPDATE SET fed_id.
JoinFedChats(fc, c, f) == [fc EXCEPT ![c] = f]

\* leavefed_command: DELETE FROM fed_chats WHERE chat_id.
LeaveFedChats(fc, c) == [fc EXCEPT ![c] = "none"]

\* delfed_command lets anyone delete.
DelfedAllowed_anyone(row, actor) == TRUE

\* delfed_command: the sender is the federation's owner or a sudo user.
DelfedAllowed(row, actor) == actor = row.owner_id \/ is_sudo(actor)

\* delfed_command: DELETE FROM fed_chats WHERE fed_id.
DelFedChats(fc, f) == [c \in DOMAIN fc |-> IF fc[c] = f THEN "none" ELSE fc[c]]

\* The loop of fban_command and funban_command over the member chats:
\* one call per chat, each in its own try/except.
RECURSIVE CallEach(_, _, _, _, _)
CallEach(h, api, cs, u, o) ==
    IF cs = <<>> THEN h
    ELSE CallEach(Caught(Call(h, api, Head(cs), u, o)), api, Tail(cs), u, o)

\* fban_command were it to skip the check of the actor.
fban_command_unchecked(h, c, actor, target, o) ==
    IF fed_chats[c] = "none" THEN Note(h, "reply_no_fed")
    ELSE IF ~federations[fed_chats[c]].exists THEN h
    ELSE Note(CallEach(Note(h, "update_banned_users"), "ban_chat_member",
                       MemberChats(fed_chats[c]), target, o),
              "reply_fban")

fban_command(h, c, actor, target, o) ==
    IF fed_chats[c] = "none" THEN Note(h, "reply_no_fed")
    ELSE IF ~federations[fed_chats[c]].exists THEN h
    ELSE IF ~FedAuthorized(c, actor) THEN Note(h, "reply_not_fed_admin")
    ELSE Note(CallEach(Note(h, "update_banned_users"), "ban_chat_member",
                       MemberChats(fed_chats[c]), target, o),
              "reply_fban")

funban_command(h, c, actor, target, o) ==
    IF fed_chats[c] = "none" THEN Note(h, "reply_no_fed")
    ELSE IF ~federations[fed_chats[c]].exists THEN h
    ELSE IF ~FedAuthorized(c, actor) THEN Note(h, "reply_not_fed_admin")
    ELSE Note(CallEach(Note(h, "update_banned_users"), "unban_chat_member",
                       MemberChats(fed_chats[c]), target, o),
              "reply_funban")

\* UPDATE federations SET banned_users, as the two commands compute it.
FbanRow(row, target) ==
    [row EXCEPT !.banned_users = @ \cup {target}]

FunbanRow(row, target) ==
    [row EXCEPT !.banned_users = @ \ {target}]

\* fedadmin_command of the federation's owner: the row after it.
FedAdminRow(row, user) ==
    [row EXCEPT !.admins = @ \cup {user}]

\* The number fban_command reports: "Banned in: banned_count chats".
banned_count(tr) ==
    Cardinality({i \in 1..Len(tr) :
                    tr[i].ev = "ban_chat_member" /\ tr[i].ok})

\* unban_command of a group administrator.
unban_command(h, c, actor, target, qa, o) ==
    IF ~is_admin(h, c, actor, qa)
    THEN Note(h, "reply_admin_only")
    ELSE LET h1 == Note(Call(h, "unban_chat_member", c, target, o),
                        "reply_unbanned")
         IN  IF h1.raised THEN Note(Caught(h1), "reply_failed") ELSE h1

\* welcome_handler for one new member who is not a bot.  The deletion of
\* the previous welcome message is left out: nothing reads it.
welcome_handler(h, c, u, o) ==
    IF ~chats[c].exists \/ ~chats[c].welcome_enabled THEN h
    ELSE IF u \in gbans
    THEN Caught(Call(Call(Note(h, "gban"), "ban_chat_member", c, u, o),
                     "send_message", c, u, o))
    ELSE Caught(Call(Note(h, "welcome"), "send_message", c, u, o))

\* handle_captcha_welcome: the member is muted and the challenge of the
\* chat's captcha_type is sent, both inside one try whose failure is
\* ignored.  Only the welcome_handler defined first calls it, and the later
\* definition of welcome_handler, the one registered, replaces that one.
handle_captcha_welcome(h, c, u, o) ==
    IF chats[c].captcha_type \in {"button", "math"}
    THEN Caught(Call(Call(h, "restrict_chat_member", c, u, o),
                     "reply_challenge", c, u, o))
    ELSE h

\* toggle_captcha_command
ToggleCaptchaRow(row) ==
    IF row.exists THEN [row EXCEPT !.captcha_enabled = ~@] ELSE row

\* captchamode_command with argument button or math.
CaptchaModeRow(row, mode) ==
    IF row.exists THEN [row EXCEPT !.captcha_type = mode] ELSE row

\* The callback data of a challenge button: captcha_verify_{target} of the
\* button challenge, captcha_math_{target}_{opt}_{answer} of the math
\* challenge, where right says that opt = answer.
CaptchaData ==
    [action : {"verify"}, target : {"u1", "u2"}, right : {TRUE}]
        \cup [action : {"math"}, target : {"u1", "u2"}, right : BOOLEAN]

\* The button answers the challenge correctly.
Correct(data) == data.action = "verify" \/ data.right

\* callback_handler without the comparison of the sender with the target.
callback_handler_anyone(h, c, from, data, o) ==
    IF data.action = "verify"
    THEN LET h1 == Call(Call(Call(h, "restrict_chat_member_all", c,
                                  data.target, o),
                             "delete_message", c, data.target, o),
                        "answer_verified", c, from, o)
         IN  IF h1.raised
             THEN Call(Caught(h1), "answer_error", c, from, o)
             ELSE h1
    ELSE h

\* callback_handler, the branch of a captcha_ button pressed by from on a
\* challenge message in chat c.  Only "verify" is handled.
callback_handler(h, c, from, data, o) ==
    IF data.action = "verify"
    THEN IF from = data.target
         THEN LET h1 == Call(Call(Call(h, "restrict_chat_member_all", c,
                                       data.target, o),
                                  "delete_message", c, data.target, o),
                             "answer_verified", c, from, o)
              IN  IF h1.raised
                  THEN Call(Caught(h1), "answer_error", c, from, o)
                  ELSE h1
         ELSE Call(h, "answer_not_for_you", c, from, o)
    ELSE h

(***************************************************************************)
(* Observations                                                            *)
(***************************************************************************)
NoMsg == [text |-> {}, ctype |-> "none"]

\* The content rules of chat c that a message matches: a blacklisted word,
\* a link while antilink is on, a locked content type.
MatchedRules(c, msg) ==
    {r \in {"blacklist"} :
        msg.text # {} /\ FirstMatch(blacklist[c], msg.text).exists}
    \cup {r \in {"antilink"} :
        chats[c].exists /\ chats[c].antilink_enabled /\ HasLink(msg.text)}
    \cup {r \in {"lock"} :
        chats[c].exists /\ should_delete(chats[c].locked_types, msg)}

\* What is recorded of a handler run: the handler, its chat and user, the
\* message it handled, its trace (platform calls with their outcomes and
\* the statements noted), whether it ended by an exception, and what held
\* of the user when it started.
Observed(h, op, c, u, msg) ==
    [op       |-> op,
     chat     |-> c,
     user     |-> u,
     msg      |-> msg,
     trace    |-> h.trace,
     raised   |-> h.raised,
     before   |-> Len(warnings[<<c, u>>]),
     approved |-> IsApproved(c, u),
     role     |-> status[<<c, u>>],
     rules    |-> MatchedRules(c, msg)]

\* The handler's writes reach the tables and the platform.
Commit(h, op, c, u, msg) ==
    /\ warnings' = h.warnings
    /\ flood_control' = h.flood_control
    /\ status' = h.status
    /\ last' = Observed(h, op, c, u, msg)

\* An oracle names no outcome for a call the handler did not make.
Canonical(h, o) == \A i \in (h.n + 1)..Len(o) : o[i]

HasFailed(tr) == \E i \in 1..Len(tr) : ~tr[i].ok

Count(tr, name) == Cardinality({i \in 1..Len(tr) : tr[i].ev = name})

\* The warn action was executed: the escalation branch was entered and its
\* first call on the platform (the ban or the restriction) succeeded.
Escalated(tr) ==
    \E i \in 1..(Len(tr) - 1) : tr[i].ev = "escalate" /\ tr[i + 1].ok

\* The role queries that can go either way: only an administrator's answer
\* decides anything.
Answers(c, u) ==
    IF status[<<c, u>>] \in {"creator", "administrator"}
    THEN BOOLEAN ELSE {TRUE}

\* Who the platform lets post in a group.
CanPost(c, u) == status[<<c, u>>] \in {"member", "administrator", "creator"}

\* What is observed of a settings command: it makes no platform call that
\* decides anything.
Configured(op) ==
    [last EXCEPT !.op = op, !.trace = <<>>, !.raised = FALSE,
                 !.msg = NoMsg, !.rules = {}]

\* Handlers that two updates in flight run at the same time.
Procs == {"p1", "p2"}

Idle == [pc |-> "start", count |-> 0, removed |-> 0, fired |-> FALSE]

(***************************************************************************)
(* Bounds                                                                  *)
(***************************************************************************)
MaxWarns == 3
MaxCalls == 3
MaxTime == 18
MaxDelay == 5
MaxMsgs == 11
MaxPosts == 3

\* The minutes the clock of the captcha gate runs.
MaxWait == 6

\* The updates handled in the specification of the roles.
MaxUpdates == 2

(***************************************************************************)
(* Specification of the warning escalation: one group, one warned member,  *)
(* warned by commands of an administrator and by the blacklist's warn      *)
(* action; the administrator also removes warnings and changes the limit   *)
(* and the action.                                                         *)
(***************************************************************************)
WarnChat == "c1"
WarnTarget == "u1"
WarnKey == <<WarnChat, WarnTarget>>
WarnActors == {"adm", "u2"}
WarnLimitArgs == {0, 2, 3}

InitTables ==
    /\ warnings = [k \in Keys |-> <<>>]
    /\ flood_control = [k \in Keys |-> NoRow]
    /\ approvals = {}
    /\ gbans = {}
    /\ status = [k \in Keys |->
                    CASE k[2] = "adm"   -> "administrator"
                      [] k[2] = "owner" -> "left"
                      [] OTHER          -> "member"]
    /\ now = 0
    /\ last = [op |-> "none", chat |-> WarnChat, user |-> WarnTarget,
               msg |-> NoMsg, trace |-> <<>>, raised |-> FALSE,
               before |-> 0, approved |-> FALSE, role |-> "member",
               rules |-> {}]
    /\ hist = [warns |-> 0, execs |-> 0, pure |-> TRUE,
               msgs |-> 0, first |-> 0, fires |-> 0, gap |-> -1,
               due |-> FALSE, gate |-> "none", joined |-> 0]
    /\ proc = [p \in Procs |-> Idle]
    /\ federations = [f \in Feds |-> NoRow]
    /\ fed_chats = [c \in Chats |-> "none"]

Init ==
    /\ InitTables
    /\ chats \in [Chats -> {NoRow, DefaultChatRow}]
    /\ \A c \in Chats \ {WarnChat} : chats[c] = NoRow
    /\ blacklist = [c \in Chats |->
                       IF c = WarnChat
                       THEN <<[trigger_word |-> "spam", action |-> "warn"]>>
                       ELSE <<>>]

\* The counters of the escalation after a handler with trace tr.
WarnHist(tr, pure) ==
    [hist EXCEPT !.warns = @ + Count(tr, "insert_warning"),
                 !.execs = @ + Count(tr, "escalate"),
                 !.pure = @ /\ pure]

Warn(actor, qa, o) ==
    \E h \in {warn_command(Begin, WarnChat, actor, WarnTarget, qa, TRUE, o)} :
        /\ hist.warns < MaxWarns
        /\ Canonical(h, o)
        /\ Commit(h, "warn", WarnChat, WarnTarget, NoMsg)
        /\ hist' = WarnHist(h.trace, TRUE)
        /\ UNCHANGED <<chats, blacklist, approvals, gbans, now, proc,
                   fedvars>>

WarnByPipeline(text, o) ==
    LET msg == [text |-> text, ctype |-> "text"]
        rq == [flood |-> TRUE, link |-> TRUE, spam |-> TRUE, bl |-> TRUE]
    IN  \E h \in {message_handler_main(Begin, WarnChat, WarnTarget, msg,
                                         now, rq, o)} :
        /\ hist.warns < MaxWarns
        /\ CanPost(WarnChat, WarnTarget)
        /\ Canonical(h, o)
        /\ Commit(h, "message", WarnChat, WarnTarget, msg)
        /\ hist' = WarnHist(h.trace, TRUE)
        /\ UNCHANGED <<chats, blacklist, approvals, gbans, now, proc,
                   fedvars>>

Unwarn(actor, qa, o) ==
    \E h \in {unwarn_command(Begin, WarnChat, actor, WarnTarget, qa, o)} :
        /\ Canonical(h, o)
        /\ Commit(h, "unwarn", WarnChat, WarnTarget, NoMsg)
        /\ hist' = WarnHist(h.trace, ~Has(h.trace, "delete_last_warning"))
        /\ UNCHANGED <<chats, blacklist, approvals, gbans, now, proc,
                   fedvars>>

Clearwarns(actor, qa, o) ==
    \E h \in {clearwarns_command(Begin, WarnChat, actor, WarnTarget, qa, o)} :
        /\ Canonical(h, o)
        /\ Commit(h, "clearwarns", WarnChat, WarnTarget, NoMsg)
        /\ hist' = WarnHist(h.trace, ~Has(h.trace, "delete_warnings"))
        /\ UNCHANGED <<chats, blacklist, approvals, gbans, now, proc,
                   fedvars>>

\* A settings command of an administrator: @admin_only lets it through
\* when the role query is answered.
Setwarnlimit(arg) ==
    /\ chats' = [chats EXCEPT ![WarnChat] = SetWarnLimitRow(@, arg)]
    /\ last' = Configured("setwarnlimit")
    /\ hist' = [hist EXCEPT !.pure = @ /\ hist.warns = 0]
    /\ UNCHANGED <<warnings, flood_control, blacklist, approvals, gbans,
                   status, now, proc, fedvars>>

Setwarnaction(arg) ==
    /\ chats' = [chats EXCEPT ![WarnChat] = SetWarnActionRow(@, arg)]
    /\ last' = Configured("setwarnaction")
    /\ UNCHANGED <<warnings, flood_control, blacklist, approvals, gbans,
                   status, now, hist, proc, fedvars>>

Next ==
    \/ \E actor \in WarnActors, o \in Oracles(MaxCalls) :
           \E qa \in Answers(WarnChat, actor) : Warn(actor, qa, o)
    \/ \E text \in SUBSET Tokens, o \in Oracles(MaxCalls) :
           WarnByPipeline(text, o)
    \/ \E actor \in WarnActors, o \in Oracles(MaxCalls) :
           \E qa \in Answers(WarnChat, actor) : Unwarn(actor, qa, o)
    \/ \E actor \in WarnActors, o \in Oracles(MaxCalls) :
           \E qa \in Answers(WarnChat, actor) : Clearwarns(actor, qa, o)
    \/ \E arg \in WarnLimitArgs : Setwarnlimit(arg)
    \/ \E arg \in {"ban", "kick", "mute"} : Setwarnaction(arg)

Spec == Init /\ [][Next]_vars

(***************************************************************************)
(* Claims on the warning escalation (checked under Spec)                   *)
(***************************************************************************)
ActionCalls == {"ban_chat_member", "unban_chat_member",
                "restrict_chat_member"}

\* A call of the punishing action failed.
ActionFailed(tr) ==
    \E i \in 1..Len(tr) : tr[i].ev \in ActionCalls /\ ~tr[i].ok

\* C1: over any sequence of warning events on the key, with the warn limit
\* L fixed, the warn action has been issued once per L warnings recorded
\* (execs = warns div L), and right after a handler in which the action
\* took effect the key has no stored warning.
C1_OncePerLimit ==
    hist.pure =>
        /\ hist.execs = hist.warns \div WarnLimitOf(WarnChat)
        /\ Escalated(last.trace) => warnings[WarnKey] = <<>>

\* C2: between handlers, every key holds fewer warnings than the warn limit
\* of its group.
C2_CountBelowLimit ==
    \A k \in Keys : Len(warnings[k]) < WarnLimitOf(k[1])

\* C4: when a warning reached the limit and a call of the warn action
\* failed, the warnings of the key are deleted all the same.
C4_ResetDespiteFailure ==
    (Has(last.trace, "escalate") /\ ActionFailed(last.trace)) =>
        warnings[<<last.chat, last.user>>] = <<>>

(***************************************************************************)
(* Specification of two warnings in flight for one key.  Each handler runs *)
(* the statements of warn_command / warn_user_internal one at a time:      *)
(* INSERT, SELECT COUNT, the warn action, DELETE.  The code takes no lock  *)
(* and opens no transaction around them (db.execute commits each statement *)
(* on its own), so the statements of two handlers interleave freely.  The  *)
(* platform answers every call here: what is observed is due to the        *)
(* interleaving alone.                                                     *)
(***************************************************************************)
ProcActor(p) == IF p = "p1" THEN "adm" ELSE "owner"

AllOk == <<>>

InitConc ==
    /\ InitTables
    /\ chats = [c \in Chats |-> IF c = WarnChat THEN DefaultChatRow ELSE NoRow]
    /\ blacklist = [c \in Chats |-> <<>>]

\* INSERT INTO warnings
CInsert(p) ==
    /\ proc[p].pc = "start"
    /\ hist.warns < MaxWarns
    /\ warnings' = InsertWarning(Begin, WarnChat, WarnTarget,
                                 ProcActor(p)).warnings
    /\ hist' = [hist EXCEPT !.warns = @ + 1]
    /\ proc' = [proc EXCEPT ![p] = [Idle EXCEPT !.pc = "inserted"]]
    /\ UNCHANGED <<chats, flood_control, blacklist, approvals, gbans,
                   status, now, last, fedvars>>

\* SELECT COUNT(*) FROM warnings
CCount(p) ==
    /\ proc[p].pc = "inserted"
    /\ proc' = [proc EXCEPT ![p].pc = "counted",
                            ![p].count = Len(warnings[WarnKey])]
    /\ UNCHANGED <<chats, warnings, flood_control, blacklist, approvals,
                   gbans, status, now, last, hist, fedvars>>

\* count >= warn_limit: the warn action
CAct(p) ==
    /\ proc[p].pc = "counted"
    /\ proc[p].count >= WarnLimitOf(WarnChat)
    /\ status' = Punish(Begin, WarnActionOf(WarnChat), WarnChat, WarnTarget,
                        AllOk).status
    /\ hist' = [hist EXCEPT !.execs = @ + 1]
    /\ proc' = [proc EXCEPT ![p].pc = "acted", ![p].fired = TRUE]
    /\ UNCHANGED <<chats, warnings, flood_control, blacklist, approvals,
                   gbans, now, last, fedvars>>

\* count < warn_limit: the reply "Warning n/limit"
CBelow(p) ==
    /\ proc[p].pc = "counted"
    /\ proc[p].count < WarnLimitOf(WarnChat)
    /\ proc' = [proc EXCEPT ![p].pc = "done"]
    /\ UNCHANGED <<chats, warnings, flood_control, blacklist, approvals,
                   gbans, status, now, last, hist, fedvars>>

\* DELETE FROM warnings WHERE chat_id AND user_id
CDelete(p) ==
    /\ proc[p].pc = "acted"
    /\ warnings' = DeleteWarnings(Begin, WarnChat, WarnTarget).warnings
    /\ proc' = [proc EXCEPT ![p].pc = "done",
                            ![p].removed = Len(warnings[WarnKey])]
    /\ UNCHANGED <<chats, flood_control, blacklist, approvals, gbans,
                   status, now, last, hist, fedvars>>

\* The handler returns; the next warning of this issuer may arrive.
CReturn(p) ==
    /\ proc[p].pc = "done"
    /\ proc' = [proc EXCEPT ![p] = Idle]
    /\ UNCHANGED <<chats, warnings, flood_control, blacklist, approvals,
                   gbans, status, now, last, hist, fedvars>>

\* /setwarnlimit and /setwarnaction between the warnings.
CConfigure ==
    /\ \A p \in Procs : proc[p].pc = "start"
    /\ hist.warns = 0
    /\ \E limit \in WarnLimitArgs, action \in {"ban", "kick", "mute"} :
           chats' = [chats EXCEPT ![WarnChat] =
                        SetWarnActionRow(SetWarnLimitRow(@, limit), action)]
    /\ UNCHANGED <<warnings, flood_control, blacklist, approvals, gbans,
                   status, now, last, hist, proc, fedvars>>

NextConc ==
    \/ \E p \in Procs : CInsert(p)
    \/ \E p \in Procs : CCount(p)
    \/ \E p \in Procs : CAct(p)
    \/ \E p \in Procs : CBelow(p)
    \/ \E p \in Procs : CDelete(p)
    \/ \E p \in Procs : CReturn(p)
    \/ CConfigure

SpecConc == InitConc /\ [][NextConc]_vars

FloodChat == "c1"
FloodUser == "u1"
FloodKey == <<FloodChat, FloodUser>>
FloodLimits == {2, 3, 10}
Delays == 0..MaxDelay

InitFlood ==
    /\ InitTables
    /\ \E limit \in FloodLimits, action \in {"ban", "kick", "mute"} :
           chats = [c \in Chats |->
                       IF c = FloodChat
                       THEN [DefaultChatRow EXCEPT
                                !.antiflood_enabled = TRUE,
                                !.antiflood_limit = limit,
                                !.antiflood_action = action]
                       ELSE NoRow]
    /\ blacklist = [c \in Chats |-> <<>>]

\* The counters of the burst after a message that arrived d seconds after
\* the one before and was handled with trace tr.  gap: the common distance
\* of the messages so far (-1: no two messages yet, -2: unevenly spaced).
FloodHist(tr, d) ==
    [hist EXCEPT !.msgs = @ + 1,
                 !.first = IF hist.msgs = 0 THEN now + d ELSE @,
                 !.fires = @ + Count(tr, "flood"),
                 !.gap = IF hist.msgs = 0 THEN -1
                         ELSE IF hist.msgs = 1 \/ @ = d THEN d
                         ELSE -2]

\* The member's next message arrives d seconds after the one before.
FloodMessage(d, o) ==
    LET msg == [text |-> {}, ctype |-> "sticker"]
        rq == [flood |-> TRUE, link |-> TRUE, spam |-> TRUE, bl |-> TRUE]
    IN  \E h \in {message_handler_main(Begin, FloodChat, FloodUser, msg,
                                        now + d, rq, o)} :
        /\ hist.msgs < MaxMsgs
        /\ now + d <= MaxTime
        /\ hist.msgs = 0 => d = 0
        /\ CanPost(FloodChat, FloodUser)
        /\ Canonical(h, o)
        /\ Commit(h, "message", FloodChat, FloodUser, msg)
        /\ now' = now + d
        /\ hist' = FloodHist(h.trace, d)
        /\ UNCHANGED <<chats, blacklist, approvals, gbans, proc, fedvars>>

NextFlood == \E d \in Delays, o \in Oracles(MaxCalls) : FloodMessage(d, o)

SpecFlood == InitFlood /\ [][NextFlood]_vars

(***************************************************************************)
(* Specification of the content pipeline: a group with one blacklisted     *)
(* word whose administrator switches antilink, locks and unlocks content   *)
(* types, sets the blacklist action and approves or disapproves a member,  *)
(* while that member posts texts and stickers.  Antiflood and antispam are *)
(* off.                                                                    *)
(***************************************************************************)
PipeChat == "c1"
PipeUser == "u1"
PipeKey == <<PipeChat, PipeUser>>
LockArgs == {"sticker", "text"}
Messages ==
    {[text |-> t, ctype |-> "text"] : t \in SUBSET Tokens}
    \cup {[text |-> {}, ctype |-> "sticker"]}

InitPipe ==
    /\ InitTables
    /\ chats = [c \in Chats |-> IF c = PipeChat THEN DefaultChatRow ELSE NoRow]
    /\ blacklist = [c \in Chats |->
                       IF c = PipeChat
                       THEN <<[trigger_word |-> "spam", action |-> "delete"]>>
                       ELSE <<>>]

PipeMessage(msg, o) ==
    LET rq == [flood |-> TRUE, link |-> TRUE, spam |-> TRUE, bl |-> TRUE]
    IN  \E h \in {message_handler_main(Begin, PipeChat, PipeUser, msg,
                                        now, rq, o)} :
        /\ Len(warnings[PipeKey]) < MaxWarns
        /\ CanPost(PipeChat, PipeUser)
        /\ Canonical(h, o)
        /\ Commit(h, "message", PipeChat, PipeUser, msg)
        /\ UNCHANGED <<chats, blacklist, approvals, gbans, now, hist, proc,
                   fedvars>>

\* approve_command and disapprove_command of an administrator.
Approve ==
    /\ approvals' = ApproveRows(approvals, PipeChat, PipeUser, "adm")
    /\ last' = Configured("approve")
    /\ UNCHANGED <<chats, warnings, flood_control, blacklist, gbans,
                   status, now, hist, proc, fedvars>>

Disapprove ==
    /\ approvals' = DisapproveRows(approvals, PipeChat, PipeUser)
    /\ last' = Configured("disapprove")
    /\ UNCHANGED <<chats, warnings, flood_control, blacklist, gbans,
                   status, now, hist, proc, fedvars>>

ToggleAntilink ==
    /\ chats' = [chats EXCEPT ![PipeChat] = ToggleAntilinkRow(@)]
    /\ last' = Configured("antilink")
    /\ UNCHANGED <<warnings, flood_control, blacklist, approvals, gbans,
                   status, now, hist, proc, fedvars>>

Lock(lock_type) ==
    /\ chats' = [chats EXCEPT ![PipeChat] = LockRow(@, lock_type)]
    /\ last' = Configured("lock")
    /\ UNCHANGED <<warnings, flood_control, blacklist, approvals, gbans,
                   status, now, hist, proc, fedvars>>

Unlock(lock_type) ==
    /\ chats' = [chats EXCEPT ![PipeChat] = UnlockRow(@, lock_type)]
    /\ last' = Configured("unlock")
    /\ UNCHANGED <<warnings, flood_control, blacklist, approvals, gbans,
                   status, now, hist, proc, fedvars>>

Blacklistaction(arg) ==
    /\ blacklist' = [blacklist EXCEPT
                        ![PipeChat] = SetBlacklistAction(@, arg)]
    /\ last' = Configured("blacklistaction")
    /\ UNCHANGED <<chats, warnings, flood_control, approvals, gbans,
                   status, now, hist, proc, fedvars>>

NextPipe ==
    \/ \E msg \in Messages, o \in Oracles(MaxCalls) : PipeMessage(msg, o)
    \/ Approve
    \/ Disapprove
    \/ ToggleAntilink
    \/ \E t \in LockArgs : Lock(t)
    \/ \E t \in LockArgs : Unlock(t)
    \/ \E arg \in {"delete", "warn", "kick", "ban"} : Blacklistaction(arg)

SpecPipe == InitPipe /\ [][NextPipe]_vars

\* C5: when the message that brings the count to the limit has its flood
\* action or the notification after it refused by the platform, the
\* flood window of the key is reset all the same (no row, or a count of 0),
\* so the next message inside the window does not run the action again.
C5_FloodResetDespiteFailure ==
    (Has(last.trace, "flood") /\ HasFailed(last.trace)) =>
        \/ ~flood_control[FloodKey].exists
        \/ flood_control[FloodKey].message_count = 0

\* C6: with limit 10 and the 5-second window, the first 10 messages of a
\* member run the flood action exactly once when the tenth arrives within
\* 5 seconds of the first (5 seconds sharp included), and not at all when
\* they are spread evenly across 20 seconds.
C6_TenMessages ==
    (chats[FloodChat].antiflood_limit = 10 /\ hist.msgs = 10) =>
        /\ now - hist.first <= FLOOD_WINDOW => hist.fires = 1
        /\ hist.gap = 2 => hist.fires = 0

\* What the detector does at the tenth message: the window is open while
\* less than 5 seconds have passed, and shut from 5 seconds sharp.
TenMessagesStrict ==
    (chats[FloodChat].antiflood_limit = 10 /\ hist.msgs = 10) =>
        hist.fires = IF now - hist.first < FLOOD_WINDOW THEN 1 ELSE 0

(***************************************************************************)
(* Claims about the content pipeline (SpecPipe)                            *)
(***************************************************************************)
ContentStages == {"lock", "blacklist", "antilink"}

\* What takes effect against the sender: a deletion, a ban, a restriction,
\* a Warning record.
Punitive ==
    {"delete_message", "ban_chat_member", "restrict_chat_member",
     "insert_warning"}

Punished(tr) == \E i \in 1..Len(tr) : tr[i].ev \in Punitive /\ tr[i].ok

CountOk(tr, name) ==
    Cardinality({i \in 1..Len(tr) : tr[i].ev = name /\ tr[i].ok})

\* The stage claimed the message and its deletion went through: what it
\* does next is its action.
StageActed(tr, stage) ==
    \E i \in 1..(Len(tr) - 1) :
        tr[i].ev = stage /\ tr[i + 1].ev = "delete_message" /\ tr[i + 1].ok

StagesActed(tr) == {s \in ContentStages : StageActed(tr, s)}

\* C7: a message matching a blacklist, lock or link rule brings no punitive
\* action and no Warning record on an approved sender, and exactly one
\* punitive action on an unapproved ordinary member (when the platform
\* refuses no call).
C7_ApprovedBypass ==
    (last.op = "message" /\ last.rules # {}) =>
        /\ last.approved =>
               /\ ~Punished(last.trace)
               /\ Len(warnings[PipeKey]) = last.before
        /\ (~last.approved /\ last.role = "member"
                /\ ~HasFailed(last.trace)) =>
               Cardinality(StagesActed(last.trace)) = 1

\* C8: of the lock, blacklist and link stages at most one executes a
\* punitive action on one message of an ordinary member, whatever the
\* message matches: one stage acts, one deletion goes through, one Warning
\* record at most is appended, one ban at most is carried out.
C8_OneContentAction ==
    last.op = "message" =>
        /\ Cardinality(StagesActed(last.trace)) <= 1
        /\ CountOk(last.trace, "delete_message") <= 1
        /\ Count(last.trace, "insert_warning") <= 1
        /\ Len(warnings[PipeKey]) <= last.before + 1
        /\ CountOk(last.trace, "ban_chat_member") <= 1

\* A message matching the blacklist and the link rule was deleted and
\* warned by one stage; the other stage claimed it too and did nothing.
C8_BothMatchedOneActed ==
    /\ last.op = "message"
    /\ {"blacklist", "antilink"} \subseteq last.rules
    /\ Has(last.trace, "blacklist") /\ Has(last.trace, "antilink")
    /\ Cardinality(StagesActed(last.trace)) = 1
    /\ Count(last.trace, "insert_warning") = 1

\* C9: on a message with a blacklisted word and a link the blacklist stage
\* runs before the link stage and the action executed is the blacklist's,
\* never the link stage's.
C9_BlacklistBeforeLink ==
    (last.op = "message" /\ {"blacklist", "antilink"} \subseteq last.rules) =>
        /\ ~StageActed(last.trace, "antilink")
        /\ \A i, j \in 1..Len(last.trace) :
               (last.trace[i].ev = "antilink" /\ last.trace[j].ev = "blacklist")
                   => j < i

\* C10: a message of an unapproved ordinary member whose content type is
\* locked is claimed by the lock stage first, which deletes it.
C10_LockDeletesFirst ==
    (/\ last.op = "message"
     /\ "lock" \in last.rules
     /\ ~last.approved
     /\ last.role = "member") =>
        /\ Len(last.trace) >= 2
        /\ last.trace[1].ev = "lock"
        /\ last.trace[2].ev = "delete_message"

(***************************************************************************)
(* Specification of flooding with content: a member of a group with        *)
(* antiflood on, a blacklisted word and antilink on or off posts texts     *)
(* and stickers, in bursts or after a pause.                               *)
(***************************************************************************)
BothLimits == {2}

InitBoth ==
    /\ InitTables
    /\ \E limit \in BothLimits, action \in {"ban", "kick", "mute"},
          link \in BOOLEAN :
           chats = [c \in Chats |->
                       IF c = FloodChat
                       THEN [DefaultChatRow EXCEPT
                                !.antiflood_enabled = TRUE,
                                !.antiflood_limit = limit,
                                !.antiflood_action = action,
                                !.antilink_enabled = link]
                       ELSE NoRow]
    /\ \E action \in {"delete", "warn", "kick", "ban"} :
           blacklist = [c \in Chats |->
                           IF c = FloodChat
                           THEN <<[trigger_word |-> "spam", action |-> action]>>
                           ELSE <<>>]

BothMessage(msg, o) ==
    LET rq == [flood |-> TRUE, link |-> TRUE, spam |-> TRUE, bl |-> TRUE]
    IN  \E h \in {message_handler_main(Begin, FloodChat, FloodUser, msg,
                                        now, rq, o)} :
        /\ hist.msgs < MaxPosts
        /\ Len(warnings[FloodKey]) < MaxWarns
        /\ CanPost(FloodChat, FloodUser)
        /\ Canonical(h, o)
        /\ Commit(h, "message", FloodChat, FloodUser, msg)
        /\ hist' = [hist EXCEPT !.msgs = @ + 1,
                                !.due = FloodDue(FloodChat, FloodUser, now)]
        /\ UNCHANGED <<chats, blacklist, approvals, gbans, now, proc,
                   fedvars>>

\* The member pauses once, for the length of the window.
Pause ==
    /\ now = 0
    /\ now' = now + FLOOD_WINDOW
    /\ UNCHANGED <<chats, warnings, flood_control, blacklist, approvals,
                   gbans, status, last, hist, proc, fedvars>>

NextBoth ==
    \/ \E msg \in Messages, o \in Oracles(MaxCalls) : BothMessage(msg, o)
    \/ Pause

SpecBoth == InitBoth /\ [][NextBoth]_vars

\* Every refused call is the deletion of a message that is already gone.
OnlyRepeatedDeleteRefused(tr) ==
    \A i \in 1..Len(tr) :
        ~tr[i].ok =>
            /\ tr[i].ev = "delete_message"
            /\ \E j \in 1..(i - 1) : tr[j].ev = "delete_message" /\ tr[j].ok

\* The flood action was carried out: the call after the decision went
\* through.
FloodActed(tr) ==
    \E i \in 1..(Len(tr) - 1) : tr[i].ev = "flood" /\ tr[i + 1].ok

Fed == "f1"
FedOwner == "adm"
FedTarget == "u1"
\* The group the federation commands are sent in.
FedHome == "c1"
FedActors == {"adm", "u2"}

InitFed ==
    /\ InitTables
    /\ chats = [c \in Chats |-> DefaultChatRow]
    /\ blacklist = [c \in Chats |-> <<>>]

\* What is observed of a federation command issued in chat c.
FedCommand(c, actor) ==
    [text |-> {}, ctype |-> "command", actor |-> actor,
     authorized |-> FedAuthorized(c, actor),
     banned |-> IF fed_chats[c] # "none"
                THEN federations[fed_chats[c]].banned_users ELSE {}]

Newfed ==
    /\ ~federations[Fed].exists
    /\ federations' = [federations EXCEPT ![Fed] = NewFedRow(FedOwner)]
    /\ last' = Configured("newfed")
    /\ UNCHANGED <<chats, warnings, flood_control, blacklist, approvals,
                   gbans, status, now, hist, proc, fed_chats>>

\* joinfed_command and leavefed_command of the group's administrator, where
\* they change a row.
Joinfed(c) ==
    /\ federations[Fed].exists
    /\ fed_chats[c] = "none"
    /\ fed_chats' = [fed_chats EXCEPT ![c] = Fed]
    /\ last' = [Configured("joinfed") EXCEPT !.chat = c]
    /\ UNCHANGED <<chats, warnings, flood_control, blacklist, approvals,
                   gbans, status, now, hist, proc, federations>>

Leavefed(c) ==
    /\ fed_chats[c] # "none"
    /\ fed_chats' = [fed_chats EXCEPT ![c] = "none"]
    /\ last' = [Configured("leavefed") EXCEPT !.chat = c]
    /\ UNCHANGED <<chats, warnings, flood_control, blacklist, approvals,
                   gbans, status, now, hist, proc, federations>>

Fedadmin(c, user) ==
    /\ fed_chats[c] # "none"
    /\ federations[fed_chats[c]].exists
    /\ user \notin federations[fed_chats[c]].admins
    /\ federations' = [federations EXCEPT
                          ![fed_chats[c]] = FedAdminRow(@, user)]
    /\ last' = [Configured("fedadmin") EXCEPT !.chat = c]
    /\ UNCHANGED <<chats, warnings, flood_control, blacklist, approvals,
                   gbans, status, now, hist, proc, fed_chats>>

Fban(c, actor, o) ==
    \E h \in {fban_command(Begin, c, actor, FedTarget, o)} :
        /\ Canonical(h, o)
        /\ Commit(h, "fban", c, FedTarget, FedCommand(c, actor))
        /\ federations' =
               IF Has(h.trace, "update_banned_users")
               THEN [federations EXCEPT
                        ![fed_chats[c]] = FbanRow(@, FedTarget)]
               ELSE federations
        /\ UNCHANGED <<chats, blacklist, approvals, gbans, now, hist, proc,
                       fed_chats>>

Funban(c, actor, o) ==
    \E h \in {funban_command(Begin, c, actor, FedTarget, o)} :
        /\ Canonical(h, o)
        /\ Commit(h, "funban", c, FedTarget, FedCommand(c, actor))
        /\ federations' =
               IF Has(h.trace, "update_banned_users")
               THEN [federations EXCEPT
                        ![fed_chats[c]] = FunbanRow(@, FedTarget)]
               ELSE federations
        /\ UNCHANGED <<chats, blacklist, approvals, gbans, now, hist, proc,
                       fed_chats>>

\* /unban of the group's administrator.
GroupUnban(c, o) ==
    \E h \in {unban_command(Begin, c, "adm", FedTarget, TRUE, o)} :
        /\ Canonical(h, o)
        /\ Commit(h, "unban", c, FedTarget, FedCommand(c, "adm"))
        /\ UNCHANGED <<chats, blacklist, approvals, gbans, now, hist, proc,
                       fedvars>>

\* /ban of the group's administrator in the home group.
GroupBan(o) ==
    \E h \in {ban_command(Begin, FedHome, "adm", FedTarget, TRUE, TRUE,
                          TRUE, o)} :
        /\ status[<<FedHome, FedTarget>>] # "kicked"
        /\ Canonical(h, o)
        /\ Commit(h, "ban", FedHome, FedTarget, FedCommand(FedHome, "adm"))
        /\ UNCHANGED <<chats, blacklist, approvals, gbans, now, hist, proc,
                       fedvars>>

\* The target posts a text in the group.
FedPost(c, o) ==
    LET msg == [text |-> {}, ctype |-> "text"]
        rq == [flood |-> TRUE, link |-> TRUE, spam |-> TRUE, bl |-> TRUE]
    IN  \E h \in {message_handler_main(Begin, c, FedTarget, msg, now,
                                        rq, o)} :
        /\ CanPost(c, FedTarget)
        /\ Canonical(h, o)
        /\ Commit(h, "message", c, FedTarget, msg)
        /\ UNCHANGED <<chats, blacklist, approvals, gbans, now, hist, proc,
                       fedvars>>

\* The target, who had left the group, joins it again.
FedRejoin(c, o) ==
    LET joined == [Begin EXCEPT !.status[<<c, FedTarget>>] = "member"]
    IN  \E h \in {welcome_handler(joined, c, FedTarget, o)} :
        /\ status[<<c, FedTarget>>] = "left"
        /\ Canonical(h, o)
        /\ Commit(h, "join", c, FedTarget, NoMsg)
        /\ UNCHANGED <<chats, blacklist, approvals, gbans, now, hist, proc,
                       fedvars>>

NextFed ==
    \/ Newfed
    \/ \E c \in Chats : Joinfed(c)
    \/ \E c \in Chats : Leavefed(c)
    \/ Fedadmin(FedHome, "u2")
    \/ \E actor \in FedActors, o \in Oracles(MaxCalls) :
           Fban(FedHome, actor, o)
    \/ \E actor \in FedActors, o \in Oracles(MaxCalls) :
           Funban(FedHome, actor, o)
    \/ \E c \in Chats, o \in Oracles(1) : GroupUnban(c, o)
    \/ \E o \in Oracles(1) : GroupBan(o)
    \/ \E c \in Chats, o \in Oracles(1) : FedPost(c, o)
    \/ \E c \in Chats, o \in Oracles(1) : FedRejoin(c, o)

SpecFed == InitFed /\ [][NextFed]_vars

(***************************************************************************)
(* Claims about the federation (SpecFed)                                   *)
(***************************************************************************)
\* The federation the last command's chat belongs to.
LastFed == fed_chats[last.chat]

\* The registry was written before the first call on a group.
RegistryFirst(tr) ==
    \A i, j \in 1..Len(tr) :
        (tr[i].ev = "update_banned_users" /\ tr[j].ev = "ban_chat_member")
            => i < j

\* The parts of C12 about the registry: an authorized federation ban
\* writes the registry before any group is called, and the target is in
\* banned_users afterwards whichever calls failed.
FbanKeepsRegistry ==
    (last.op = "fban" /\ last.msg.authorized) =>
        /\ RegistryFirst(last.trace)
        /\ last.user \in federations[LastFed].banned_users

\* C12: an authorized federation ban adds the target to banned_users
\* before any group is called, keeps it there whichever calls fail, and
\* reports the groups where the ban succeeded and those where it failed.
C12_FbanPartition ==
    (last.op = "fban" /\ last.msg.authorized) =>
        /\ RegistryFirst(last.trace)
        /\ last.user \in federations[LastFed].banned_users
        /\ banned_count(last.trace) = CountOk(last.trace, "ban_chat_member")
        /\ HasFailed(last.trace) => Has(last.trace, "reply_failed_groups")

\* C13: a federation ban or unban by an actor who is neither the owner
\* nor an admin of the federation leaves banned_users as it was and calls
\* no group.
C13_UnauthorizedNoEffect ==
    (last.op \in {"fban", "funban"} /\ ~last.msg.authorized) =>
        /\ LastFed # "none" =>
               federations[LastFed].banned_users = last.msg.banned
        /\ ~Has(last.trace, "update_banned_users")
        /\ ~Has(last.trace, "ban_chat_member")
        /\ ~Has(last.trace, "unban_chat_member")

\* A member of a federation's group who is not its admin sent /fban and
\* was turned away.
C13_Refused ==
    /\ last.op = "fban"
    /\ ~last.msg.authorized
    /\ LastFed # "none"
    /\ \E c \in Chats : c # last.chat /\ fed_chats[c] = LastFed
    /\ Has(last.trace, "reply_not_fed_admin")

\* C14: in a group of a federation, a user in banned_users who is banned
\* in the group is not un-banned there unless the same step removes the
\* user from banned_users.
C14_GroupNeverLeads ==
    [][\A c \in Chats :
          (/\ fed_chats[c] # "none"
           /\ FedTarget \in federations[fed_chats[c]].banned_users
           /\ status[<<c, FedTarget>>] = "kicked"
           /\ status'[<<c, FedTarget>>] # "kicked")
              => FedTarget \notin federations'[fed_chats[c]].banned_users]_vars

\* C15: once a user in banned_users joins or posts in a group of the
\* federation, the user is banned in that group (the platform refusing
\* no call).
C15_LateGroupCatchesUp ==
    (/\ last.op \in {"message", "join"}
     /\ LastFed # "none"
     /\ last.user \in federations[LastFed].banned_users
     /\ ~HasFailed(last.trace)) =>
        status[<<last.chat, last.user>>] = "kicked"

(***************************************************************************)
(* The captcha gate: joins, challenge buttons and the clock (SpecGate)     *)
(***************************************************************************)
GateChat == "c1"

GateUser == "u1"

GateKey == <<GateChat, GateUser>>

\* The minutes a new member is given to verify.
CAPTCHA_TIMEOUT == 5

InitGate ==
    /\ InitTables
    /\ chats = [c \in Chats |-> DefaultChatRow]
    /\ blacklist = [c \in Chats |-> <<>>]

\* /captcha of an administrator.
ToggleCaptcha ==
    /\ chats' = [chats EXCEPT ![GateChat] = ToggleCaptchaRow(@)]
    /\ last' = Configured("captcha")
    /\ UNCHANGED <<warnings, flood_control, blacklist, approvals, gbans,
                   status, now, hist, proc, fedvars>>

\* /captchamode of an administrator.
Captchamode(mode) ==
    /\ chats[GateChat].captcha_type # mode
    /\ chats' = [chats EXCEPT ![GateChat] = CaptchaModeRow(@, mode)]
    /\ last' = Configured("captchamode")
    /\ UNCHANGED <<warnings, flood_control, blacklist, approvals, gbans,
                   status, now, hist, proc, fedvars>>

\* The member leaves the group.
GateLeave ==
    /\ status[GateKey] \in {"member", "restricted"}
    /\ status' = [status EXCEPT ![GateKey] = "left"]
    /\ last' = Configured("left")
    /\ hist' = [hist EXCEPT !.gate = "none"]
    /\ UNCHANGED <<chats, warnings, flood_control, blacklist, approvals,
                   gbans, now, proc, fedvars>>

\* What is observed of a join: the captcha settings it found.
JoinMsg(c) ==
    [text |-> {}, ctype |-> "new_chat_members",
     captcha |-> chats[c].captcha_enabled, mode |-> chats[c].captcha_type]

\* The user joins the group: the new_chat_members update is handled.
GateJoin(o) ==
    LET joined == [Begin EXCEPT !.status[GateKey] = "member"]
    IN  \E h \in {welcome_handler(joined, GateChat, GateUser, o)} :
        /\ status[GateKey] = "left"
        /\ Canonical(h, o)
        /\ Commit(h, "join", GateChat, GateUser, JoinMsg(GateChat))
        /\ hist' = [hist EXCEPT
                       !.gate = IF chats[GateChat].captcha_enabled
                                THEN "due" ELSE "none",
                       !.joined = now]
        /\ UNCHANGED <<chats, blacklist, approvals, gbans, now, proc,
                       fedvars>>

\* What is observed of a pressed challenge button.
CallbackMsg(from, data) ==
    [text |-> {}, ctype |-> "callback_query", from |-> from, data |-> data]

\* A member of the group presses a challenge button.
Callback(from, data, o) ==
    \E h \in {callback_handler(Begin, GateChat, from, data, o)} :
        /\ status[<<GateChat, from>>] \in {"member", "restricted"}
        /\ Canonical(h, o)
        /\ Commit(h, "callback", GateChat, data.target,
                  CallbackMsg(from, data))
        /\ hist' = [hist EXCEPT
                       !.gate = IF /\ data.target = GateUser
                                   /\ CountOk(h.trace,
                                              "restrict_chat_member_all") > 0
                                THEN "verified" ELSE @]
        /\ UNCHANGED <<chats, blacklist, approvals, gbans, now, proc,
                       fedvars>>

\* A minute passes.
GateTick ==
    /\ now < MaxWait
    /\ now' = now + 1
    /\ UNCHANGED <<chats, warnings, flood_control, blacklist, approvals,
                   gbans, status, last, hist, proc, fedvars>>

NextGate ==
    \/ ToggleCaptcha
    \/ \E mode \in {"button", "math"} : Captchamode(mode)
    \/ GateLeave
    \/ \E o \in Oracles(MaxCalls) : GateJoin(o)
    \/ \E from \in {"u1", "u2"}, data \in CaptchaData,
          o \in Oracles(MaxCalls) : Callback(from, data, o)
    \/ GateTick

SpecGate == InitGate /\ [][NextGate]_vars

(***************************************************************************)
(* Claims about the captcha gate (SpecGate)                                *)
(***************************************************************************)
\* C16: a member who joined while captcha was on and has not verified is
\* out of the group once the time to verify has run out.
C16_UnansweredRemoved ==
    (hist.gate = "due" /\ now > hist.joined + CAPTCHA_TIMEOUT) =>
        status[GateKey] \in {"kicked", "left"}

\* C17: when a member who joined while captcha was on presses the right
\* button of the challenge and the platform refuses nothing, the member's
\* restrictions are lifted and the challenge message is removed.
C17_CorrectAnswerAdmits ==
    (/\ last.op = "callback"
     /\ hist.gate = "due"
     /\ last.msg.from = last.msg.data.target
     /\ Correct(last.msg.data)
     /\ ~HasFailed(last.trace)) =>
        /\ CountOk(last.trace, "restrict_chat_member_all") = 1
        /\ CountOk(last.trace, "delete_message") = 1
        /\ status[<<last.chat, last.user>>] = "member"

\* C18: a challenge button pressed by anyone but its target lifts and
\* restricts nothing, deletes no message and leaves every table and every
\* member's state as it was; the button challenge answers that the button
\* is not for the sender.
C18_OthersRejected ==
    /\ []((last.op = "callback" /\ last.msg.from # last.msg.data.target) =>
            /\ status[<<last.chat, last.user>>] = last.role
            /\ \A i \in 1..Len(last.trace) :
                   last.trace[i].ev = "answer_not_for_you"
            /\ last.msg.data.action = "verify" =>
                   Has(last.trace, "answer_not_for_you"))
    /\ [][(last'.op = "callback" /\ last'.msg.from # last'.msg.data.target)
              => UNCHANGED <<chats, warnings, flood_control, blacklist,
                             approvals, gbans, status, fedvars>>]_vars

\* The member joined with captcha on and has not verified; another member
\* pressed the member's button and was told it is not theirs.
C18_StrangerPressed ==
    /\ last.op = "callback"
    /\ last.msg.from = "u2"
    /\ last.msg.data.target = GateUser
    /\ last.msg.data.action = "verify"
    /\ hist.gate = "due"
    /\ Has(last.trace, "answer_not_for_you")

\* C19: after the join of a user while captcha is on, the platform
\* refusing nothing, the user is restricted and a challenge was sent.
C19_JoinIsGated ==
    (last.op = "join" /\ last.msg.captcha /\ ~HasFailed(last.trace)) =>
        /\ status[<<last.chat, last.user>>] = "restricted"
        /\ Has(last.trace, "restrict_chat_member")
        /\ Has(last.trace, "reply_challenge")

(***************************************************************************)
(* Explicit commands on an approved member (SpecCmd)                       *)
(***************************************************************************)
InitCmd ==
    /\ InitTables
    /\ chats = [c \in Chats |-> DefaultChatRow]
    /\ blacklist = [c \in Chats |-> <<>>]

\* /ban of the member by an actor.
Ban(actor, qa, qr, o) ==
    \E h \in {ban_command(Begin, WarnChat, actor, WarnTarget, qa, qr, TRUE,
                          o)} :
        /\ Canonical(h, o)
        /\ Commit(h, "ban", WarnChat, WarnTarget, NoMsg)
        /\ UNCHANGED <<chats, blacklist, approvals, gbans, now, hist, proc,
                       fedvars>>

NextCmd ==
    \/ Approve
    \/ Disapprove
    \/ \E actor \in WarnActors, o \in Oracles(MaxCalls) :
           \E qa \in Answers(WarnChat, actor) : Warn(actor, qa, o)
    \/ \E actor \in WarnActors, o \in Oracles(MaxCalls) :
           \E qa \in Answers(WarnChat, actor), qr \in BOOLEAN :
               Ban(actor, qa, qr, o)
    \/ \E o \in Oracles(1) : GroupUnban(WarnChat, o)

SpecCmd == InitCmd /\ [][NextCmd]_vars

\* C20: a step that changes nothing but the approval of the member changes
\* the outcome of no /warn and of no /ban on that member: for every actor,
\* every answer of the role queries and every behaviour of the platform,
\* the run after the step ends with the same warning records, the same
\* trace (escalation included) and the same ban state as the run before.
C20_ApprovalIgnored ==
    [][approvals' # approvals =>
          \A actor \in WarnActors, qa \in BOOLEAN, qr \in BOOLEAN,
             o \in Oracles(MaxCalls) :
              /\ warn_command(Begin, WarnChat, actor, WarnTarget, qa, TRUE,
                              o)'
                   = warn_command(Begin, WarnChat, actor, WarnTarget, qa,
                                  TRUE, o)
              /\ ban_command(Begin, WarnChat, actor, WarnTarget, qa, qr,
                             TRUE, o)'
                   = ban_command(Begin, WarnChat, actor, WarnTarget, qa, qr,
                                 TRUE, o)]_vars

\* The approved member was warned by an administrator up to the limit and
\* the escalation was executed.
C20_ApprovedEscalated ==
    /\ last.op = "warn"
    /\ last.approved
    /\ IsApproved(WarnChat, WarnTarget)
    /\ Has(last.trace, "insert_warning")
    /\ Escalated(last.trace)

(***************************************************************************)
(* Roles (SpecRole): in a group with antiflood, antilink and a blacklisted *)
(* word, an administrator, a member and the bot's owner post messages and  *)
(* send /warn and /ban, while the platform answers the role queries or     *)
(* not.  hist.msgs counts the updates handled.                             *)
(***************************************************************************)
RoleChat == "c1"

RoleTarget == "u1"

RoleSenders == {"adm", "u1", "owner"}

InitRole ==
    /\ InitTables
    /\ chats = [c \in Chats |->
                   IF c = RoleChat
                   THEN [DefaultChatRow EXCEPT !.antiflood_enabled = TRUE,
                                               !.antiflood_limit = 2,
                                               !.antilink_enabled = TRUE]
                   ELSE NoRow]
    /\ blacklist = [c \in Chats |->
                       IF c = RoleChat
                       THEN <<[trigger_word |-> "spam", action |-> "ban"]>>
                       ELSE <<>>]

\* The answers the four role queries of message_handler_main can get for
\* a sender: only an administrator's answer decides anything.  While one
\* update is handled the platform answers all four or none.
RoleAnswers(u) ==
    IF status[<<RoleChat, u>>] \in {"creator", "administrator"}
    THEN {[flood |-> q, link |-> q, spam |-> q, bl |-> q] : q \in BOOLEAN}
    ELSE {[flood |-> TRUE, link |-> TRUE, spam |-> TRUE, bl |-> TRUE]}

\* The bot's owner joins the group.
RoleJoin(o) ==
    LET joined == [Begin EXCEPT !.status[<<RoleChat, OWNER_ID>>] = "member"]
    IN  \E h \in {welcome_handler(joined, RoleChat, OWNER_ID, o)} :
        /\ status[<<RoleChat, OWNER_ID>>] = "left"
        /\ Canonical(h, o)
        /\ Commit(h, "join", RoleChat, OWNER_ID, NoMsg)
        /\ UNCHANGED <<chats, blacklist, approvals, gbans, now, hist, proc,
                       fedvars>>

\* A message of sender u; rq: which role queries were answered.
RoleMessage(u, text, rq, o) ==
    LET msg == [text |-> text, ctype |-> "text", rq |-> rq]
    IN  \E h \in {message_handler_main(Begin, RoleChat, u, msg, now, rq,
                                        o)} :
        /\ hist.msgs < MaxUpdates
        /\ CanPost(RoleChat, u)
        /\ Canonical(h, o)
        /\ Commit(h, "message", RoleChat, u, msg)
        /\ hist' = [hist EXCEPT !.msgs = @ + 1]
        /\ UNCHANGED <<chats, blacklist, approvals, gbans, now, proc,
                       fedvars>>

\* What is observed of an admin-only command: its sender and whether the
\* role query for the sender was answered.
RoleCommand(actor, qa) ==
    [text |-> {}, ctype |-> "command", actor |-> actor, answered |-> qa,
     status |-> status[<<RoleChat, actor>>]]

RoleWarn(actor, qa, o) ==
    \E h \in {warn_command(Begin, RoleChat, actor, RoleTarget, qa, TRUE,
                           o)} :
        /\ hist.msgs < MaxUpdates
        /\ CanPost(RoleChat, actor)
        /\ Canonical(h, o)
        /\ Commit(h, "warn", RoleChat, RoleTarget, RoleCommand(actor, qa))
        /\ hist' = [hist EXCEPT !.msgs = @ + 1]
        /\ UNCHANGED <<chats, blacklist, approvals, gbans, now, proc,
                       fedvars>>

RoleBan(actor, qa, o) ==
    \E h \in {ban_command(Begin, RoleChat, actor, RoleTarget, qa, TRUE,
                          TRUE, o)} :
        /\ hist.msgs < MaxUpdates
        /\ CanPost(RoleChat, actor)
        /\ Canonical(h, o)
        /\ Commit(h, "ban", RoleChat, RoleTarget, RoleCommand(actor, qa))
        /\ hist' = [hist EXCEPT !.msgs = @ + 1]
        /\ UNCHANGED <<chats, blacklist, approvals, gbans, now, proc,
                       fedvars>>

NextRole ==
    \/ \E o \in Oracles(1) : RoleJoin(o)
    \/ \E u \in RoleSenders, text \in SUBSET Tokens,
          o \in Oracles(MaxCalls) :
           \E rq \in RoleAnswers(u) : RoleMessage(u, text, rq, o)
    \/ \E actor \in RoleSenders, qa \in BOOLEAN, o \in Oracles(MaxCalls) :
           RoleWarn(actor, qa, o)
    \/ \E actor \in RoleSenders, qa \in BOOLEAN, o \in Oracles(MaxCalls) :
           RoleBan(actor, qa, o)

SpecRole == InitRole /\ [][NextRole]_vars

\* The sender of the last message is an administrator or the creator of
\* the group.
LastSenderAdmin == last.role \in {"creator", "administrator"}

\* C21: when the role query for an actor who is not owner or sudo raises,
\* an admin-only command is refused and changes nothing, and the actor's
\* message goes through the stages like a member's: the flood counter
\* counts it and the content rules it matches act on it.
C21_FailClosed ==
    /\ (/\ last.op \in {"warn", "ban"}
        /\ ~last.msg.answered
        /\ ~is_sudo(last.msg.actor)) =>
           /\ last.trace = <<Ev("reply_admin_only", TRUE)>>
           /\ Len(warnings[<<last.chat, last.user>>]) = last.before
           /\ status[<<last.chat, last.user>>] = last.role
    /\ (/\ last.op = "message"
        /\ ~last.msg.rq.flood
        /\ ~is_sudo(last.user)) =>
           /\ \/ flood_control[<<last.chat, last.user>>].exists
              \/ Has(last.trace, "flood")
           /\ "antilink" \in last.rules => Has(last.trace, "antilink")
           /\ "blacklist" \in last.rules => Has(last.trace, "blacklist")

\* An administrator of the group sent /warn, the role query raised, and
\* the command was refused.
C21_AdminRefused ==
    /\ last.op = "warn"
    /\ last.msg.actor = "adm"
    /\ last.msg.status = "administrator"
    /\ ~last.msg.answered
    /\ Has(last.trace, "reply_admin_only")

\* C22 as stated: a message of an administrator, the creator, the owner or
\* a sudo user makes no stage act: nothing in the trace, no warning
\* appended, no flood row, the sender's state as before.
C22_PrivilegedNeverPunished ==
    (last.op = "message" /\ (LastSenderAdmin \/ is_sudo(last.user))) =>
        /\ last.trace = <<>>
        /\ Len(warnings[<<last.chat, last.user>>]) = last.before
        /\ ~flood_control[<<last.chat, last.user>>].exists
        /\ status[<<last.chat, last.user>>] = last.role

\* The sender of the last message was resolved as privileged: owner or
\* sudo, or an administrator whose role queries were answered.
ResolvedPrivileged ==
    /\ last.op = "message"
    /\ \/ is_sudo(last.user)
       \/ LastSenderAdmin /\ last.msg.rq.flood /\ last.msg.rq.bl

\* C22 with the role queries answered: a message of the owner or a sudo
\* user, or of an administrator or creator whose role queries the
\* platform answered, makes no stage act: nothing in the trace, and the
\* warnings, the flood counters and every member's state stay as they
\* were.
C22_ResolvedNeverPunished ==
    /\ [](ResolvedPrivileged =>
            /\ last.trace = <<>>
            /\ Len(warnings[<<last.chat, last.user>>]) = last.before
            /\ status[<<last.chat, last.user>>] = last.role)
    /\ [][ResolvedPrivileged' =>
              UNCHANGED <<warnings, flood_control, status>>]_vars

\* An administrator whose role was resolved posted a link with the
\* blacklisted word, at a moment the flood limit was due, and nothing was
\* done.
C22_AdminSpared ==
    /\ last.op = "message"
    /\ last.user = "adm"
    /\ last.msg.rq.bl
    /\ last.rules = {"antilink", "blacklist"}
    /\ flood_control[<<last.chat, last.user>>].exists
    /\ last.trace = <<>>

(***************************************************************************)
(* Approvals (SpecApprove): the administrator, the bot's owner once in the *)
(* group, and a member send /approve and /disapprove for two members of    *)
(* one group.                                                              *)
(***************************************************************************)
ApproveChat == "c1"

ApproveActors == {"adm", "owner", "u2"}

ApproveTargets == {"u1", "u2"}

InitApprove ==
    /\ InitTables
    /\ chats = [c \in Chats |-> DefaultChatRow]
    /\ blacklist = [c \in Chats |-> <<>>]

\* What is observed of /approve and /disapprove: the sender, whether the
\* role query was answered, and the table before the command.
ApproveCommand(actor, qa) ==
    [text |-> {}, ctype |-> "command", actor |-> actor, answered |-> qa,
     rows |-> approvals]

\* approve_command behind @admin_only.
ApproveBy(actor, target, qa) ==
    LET ok == is_admin(Begin, ApproveChat, actor, qa)
        h == IF ok
             THEN Note(Note(Begin, "insert_approval"), "reply_approved")
             ELSE Note(Begin, "reply_admin_only")
    IN  /\ CanPost(ApproveChat, actor)
        /\ approvals' = IF ok
                        THEN ApproveRows(approvals, ApproveChat, target,
                                         actor)
                        ELSE approvals
        /\ last' = Observed(h, "approve", ApproveChat, target,
                            ApproveCommand(actor, qa))
        /\ UNCHANGED <<chats, warnings, flood_control, blacklist, gbans,
                       status, now, hist, proc, fedvars>>

\* disapprove_command behind @admin_only.
DisapproveBy(actor, target, qa) ==
    LET ok == is_admin(Begin, ApproveChat, actor, qa)
        h == IF ok
             THEN Note(Note(Begin, "delete_approval"), "reply_removed")
             ELSE Note(Begin, "reply_admin_only")
    IN  /\ CanPost(ApproveChat, actor)
        /\ approvals' = IF ok
                        THEN DisapproveRows(approvals, ApproveChat, target)
                        ELSE approvals
        /\ last' = Observed(h, "disapprove", ApproveChat, target,
                            ApproveCommand(actor, qa))
        /\ UNCHANGED <<chats, warnings, flood_control, blacklist, gbans,
                       status, now, hist, proc, fedvars>>

NextApprove ==
    \/ \E o \in Oracles(1) : RoleJoin(o)
    \/ \E actor \in ApproveActors, target \in ApproveTargets :
           \E qa \in Answers(ApproveChat, actor) :
               ApproveBy(actor, target, qa)
    \/ \E actor \in ApproveActors, target \in ApproveTargets :
           \E qa \in Answers(ApproveChat, actor) :
               DisapproveBy(actor, target, qa)

SpecApprove == InitApprove /\ [][NextApprove]_vars

\* The rows of table approvals for a pair.
ApprovalRows(c, u) == {r \in approvals : r.chat_id = c /\ r.user_id = u}

\* C23: no pair ever has two approval records; after an /approve that
\* passed the admin check the pair has exactly one; and an /approve of a
\* pair that is approved already leaves the table as it was, whoever
\* sends it.
C23_ApproveIdempotent ==
    /\ [](\A c \in Chats, u \in Users :
             Cardinality(ApprovalRows(c, u)) <= 1)
    /\ []((last.op = "approve" /\ Has(last.trace, "insert_approval")) =>
             Cardinality(ApprovalRows(last.chat, last.user)) = 1)
    /\ [][(last'.op = "approve" /\ IsApproved(last'.chat, last'.user)) =>
              approvals' = approvals]_vars

\* A pair approved by one administrator was approved again by another
\* sender who passed the admin check.
C23_ApprovedTwice ==
    /\ last.op = "approve"
    /\ Has(last.trace, "insert_approval")
    /\ \E r \in last.msg.rows :
           /\ r.chat_id = last.chat
           /\ r.user_id = last.user
           /\ r.approved_by # last.msg.actor

\* C24: an accepted federation unban of a user who is not in banned_users
\* changes nothing: banned_users stays as it was, and in every group the
\* user is banned after it exactly if banned before it.
C24_FunbanOfUnbannedNoop ==
    [][(/\ last' # last
        /\ last'.op = "funban"
        /\ last'.msg.authorized
        /\ last'.user \notin last'.msg.banned) =>
           /\ federations' = federations
           /\ \A c \in Chats :
                  (status'[<<c, last'.user>>] = "kicked")
                      <=> (status[<<c, last'.user>>] = "kicked")]_vars

(***************************************************************************)
(* The registry of federations (SpecReg): two federations are created and  *)
(* deleted, two groups join and leave them.                                *)
(***************************************************************************)
RegChats == {"c1", "c2"}

RegOwners == {"adm", "u2"}

RegActors == {"adm", "u2", "owner"}

\* What is observed of a registry command: its sender, the federation it
\* names, and both tables before it.
RegCommand(actor, f) ==
    [text |-> {}, ctype |-> "command", actor |-> actor, fed |-> f,
     federations |-> federations, fed_chats |-> fed_chats]

RegObserved(tr, op, c, actor, f) ==
    [last EXCEPT !.op = op, !.chat = c, !.trace = tr, !.raised = FALSE,
                 !.msg = RegCommand(actor, f), !.rules = {}]

\* newfed_command: the sender becomes the owner of a new federation.
RegNewfed(f, owner) ==
    /\ ~federations[f].exists
    /\ federations' = [federations EXCEPT ![f] = NewFedRow(owner)]
    /\ last' = RegObserved(<<Ev("insert_federation", TRUE)>>, "newfed",
                           last.chat, owner, f)
    /\ UNCHANGED <<chats, warnings, flood_control, blacklist, approvals,
                   gbans, status, now, hist, proc, fed_chats>>

\* joinfed_command of the group's administrator with argument f.
RegJoinfed(c, f) ==
    /\ fed_chats' = IF federations[f].exists
                    THEN JoinFedChats(fed_chats, c, f)
                    ELSE fed_chats
    /\ last' = RegObserved(
                   IF federations[f].exists
                   THEN <<Ev("upsert_fed_chats", TRUE), Ev("reply_joined", TRUE)>>
                   ELSE <<Ev("reply_fed_not_found", TRUE)>>,
                   "joinfed", c, "adm", f)
    /\ UNCHANGED <<chats, warnings, flood_control, blacklist, approvals,
                   gbans, status, now, hist, proc, federations>>

\* leavefed_command of the group's administrator.
RegLeavefed(c) ==
    /\ fed_chats' = LeaveFedChats(fed_chats, c)
    /\ last' = RegObserved(
                   IF fed_chats[c] # "none"
                   THEN <<Ev("delete_fed_chats", TRUE), Ev("reply_left", TRUE)>>
                   ELSE <<Ev("delete_fed_chats", TRUE),
                          Ev("reply_no_fed", TRUE)>>,
                   "leavefed", c, "adm", fed_chats[c])
    /\ UNCHANGED <<chats, warnings, flood_control, blacklist, approvals,
                   gbans, status, now, hist, proc, federations>>

\* delfed_command with argument f.
RegDelfed(f, actor) ==
    LET fed == federations[f]
        ok == fed.exists /\ DelfedAllowed(fed, actor)
    IN  /\ fed_chats' = IF ok THEN DelFedChats(fed_chats, f) ELSE fed_chats
        /\ federations' = IF ok
                          THEN [federations EXCEPT ![f] = NoRow]
                          ELSE federations
        /\ last' = RegObserved(
                       IF ~fed.exists THEN <<Ev("reply_fed_not_found", TRUE)>>
                       ELSE IF ~ok THEN <<Ev("reply_only_owner", TRUE)>>
                       ELSE <<Ev("delete_fed_chats", TRUE),
                              Ev("delete_federation", TRUE),
                              Ev("reply_deleted", TRUE)>>,
                       "delfed", last.chat, actor, f)
        /\ UNCHANGED <<chats, warnings, flood_control, blacklist, approvals,
                       gbans, status, now, hist, proc>>

NextReg ==
    \/ \E f \in Feds, owner \in RegOwners : RegNewfed(f, owner)
    \/ \E c \in RegChats, f \in Feds : RegJoinfed(c, f)
    \/ \E c \in RegChats : RegLeavefed(c)
    \/ \E f \in Feds, actor \in RegActors : RegDelfed(f, actor)

SpecReg == InitFed /\ [][NextReg]_vars

\* C25: a group's federation changes only by a joinfed that found its
\* federation, after which it is the one named, by a leavefed or by the
\* deletion of its federation, after which it is none; and a joinfed of
\* the federation the group is in already changes nothing.
C25_LastJoinWins ==
    /\ []((last.op = "joinfed" /\ Has(last.trace, "upsert_fed_chats")) =>
             fed_chats[last.chat] = last.msg.fed)
    /\ [][\A c \in Chats :
              fed_chats'[c] # fed_chats[c] =>
                  \/ /\ last'.op = "joinfed"
                     /\ last'.chat = c
                     /\ fed_chats'[c] = last'.msg.fed
                  \/ /\ last'.op = "leavefed"
                     /\ last'.chat = c
                     /\ fed_chats'[c] = "none"
                  \/ /\ last'.op = "delfed"
                     /\ fed_chats[c] = last'.msg.fed
                     /\ fed_chats'[c] = "none"]_vars
    /\ [][(/\ last' # last
           /\ last'.op = "joinfed"
           /\ fed_chats[last'.chat] = last'.msg.fed) =>
              UNCHANGED <<fed_chats, federations>>]_vars

\* A group that was in one federation joined the other.
C25_Rejoined ==
    /\ last.op = "joinfed"
    /\ Has(last.trace, "upsert_fed_chats")
    /\ last.msg.fed_chats[last.chat] \notin {"none", last.msg.fed}
    /\ fed_chats[last.chat] = last.msg.fed

\* The last command was a delfed of an existing federation.
DelfedOfExisting ==
    last.op = "delfed" /\ last.msg.federations[last.msg.fed].exists

\* C26: a delfed by the federation's owner or a sudo user leaves no
\* federation of that id and no group in it; a delfed by anyone else
\* leaves the federations and the memberships as they were.
C26_DelfedByOwnerOnly ==
    DelfedOfExisting =>
        IF \/ last.msg.actor = last.msg.federations[last.msg.fed].owner_id
           \/ is_sudo(last.msg.actor)
        THEN /\ ~federations[last.msg.fed].exists
             /\ \A c \in Chats : fed_chats[c] # last.msg.fed
             /\ \A f \in Feds \ {last.msg.fed} :
                    federations[f] = last.msg.federations[f]
        ELSE /\ federations = last.msg.federations
             /\ fed_chats = last.msg.fed_chats

\* A federation with a member group was deleted by its owner.
C26_Deleted ==
    /\ DelfedOfExisting
    /\ last.msg.actor = last.msg.federations[last.msg.fed].owner_id
    /\ \E c \in Chats : last.msg.fed_chats[c] = last.msg.fed
    /\ Has(last.trace, "delete_federation")

(***************************************************************************)
(* The policy of a group (SpecConf): a group whose row of chats exists or  *)
(* not, a member who posts and joins, and the setting commands of its      *)
(* administrator with numeric and textual arguments.                       *)
(***************************************************************************)
ConfChat == "c1"

ConfUser == "u1"

\* Arguments of /setwarnlimit and /setflood: a text that is no number
\* ("abc", "-1"), 0, values inside the range, and one above the largest
\* warn limit.
ConfNumbers == {NoDigits, Digits(0), Digits(1), Digits(2),
                Digits(WARN_LIMIT_MAX + 1)}

\* Arguments of /setwarnaction and /setfloodaction.
ConfWords == {"ban", "kick", "Mute", "delete"}

InitConf ==
    /\ InitTables
    /\ chats \in [Chats -> {NoRow, DefaultChatRow}]
    /\ \A c \in Chats \ {ConfChat} : chats[c] = NoRow
    /\ blacklist = [c \in Chats |-> <<>>]

\* What is observed of a setting command: its argument and the row of
\* the group before it.
ConfCommand(arg) ==
    [text |-> {}, ctype |-> "command", arg |-> arg, row |-> chats[ConfChat]]

ConfObserved(op, arg) ==
    [last EXCEPT !.op = op, !.chat = ConfChat, !.user = "adm",
                 !.trace = <<>>,
                 !.raised = FALSE, !.msg = ConfCommand(arg), !.rules = {}]

ConfSetwarnlimit(arg) ==
    /\ chats' = [chats EXCEPT ![ConfChat] = setwarnlimit_command(@, arg)]
    /\ last' = ConfObserved("setwarnlimit", arg)
    /\ UNCHANGED <<warnings, flood_control, blacklist, approvals, gbans,
                   status, now, hist, proc, fedvars>>

ConfSetflood(arg) ==
    /\ chats' = [chats EXCEPT ![ConfChat] = setflood_command(@, arg)]
    /\ last' = ConfObserved("setflood", arg)
    /\ UNCHANGED <<warnings, flood_control, blacklist, approvals, gbans,
                   status, now, hist, proc, fedvars>>

ConfSetwarnaction(arg) ==
    /\ chats' = [chats EXCEPT ![ConfChat] = setwarnaction_command(@, arg)]
    /\ last' = ConfObserved("setwarnaction", arg)
    /\ UNCHANGED <<warnings, flood_control, blacklist, approvals, gbans,
                   status, now, hist, proc, fedvars>>

ConfSetfloodaction(arg) ==
    /\ chats' = [chats EXCEPT ![ConfChat] = setfloodaction_command(@, arg)]
    /\ last' = ConfObserved("setfloodaction", arg)
    /\ UNCHANGED <<warnings, flood_control, blacklist, approvals, gbans,
                   status, now, hist, proc, fedvars>>

ConfCaptcha ==
    /\ chats' = [chats EXCEPT ![ConfChat] = ToggleCaptchaRow(@)]
    /\ last' = ConfObserved("captcha", "")
    /\ UNCHANGED <<warnings, flood_control, blacklist, approvals, gbans,
                   status, now, hist, proc, fedvars>>

\* The member posts a text: an event of the group.
ConfMessage(o) ==
    LET msg == [text |-> {}, ctype |-> "text"]
        rq == [flood |-> TRUE, link |-> TRUE, spam |-> TRUE, bl |-> TRUE]
    IN  \E h \in {message_handler_main(Begin, ConfChat, ConfUser, msg, now,
                                        rq, o)} :
        /\ hist.msgs < MaxUpdates
        /\ CanPost(ConfChat, ConfUser)
        /\ Canonical(h, o)
        /\ Commit(h, "message", ConfChat, ConfUser, msg)
        /\ hist' = [hist EXCEPT !.msgs = @ + 1]
        /\ UNCHANGED <<chats, blacklist, approvals, gbans, now, proc,
                       fedvars>>

\* The member leaves and joins again: an event of the group.
ConfJoin(o) ==
    \E h \in {welcome_handler(Begin, ConfChat, ConfUser, o)} :
        /\ hist.msgs < MaxUpdates
        /\ Canonical(h, o)
        /\ Commit(h, "join", ConfChat, ConfUser, NoMsg)
        /\ hist' = [hist EXCEPT !.msgs = @ + 1]
        /\ UNCHANGED <<chats, blacklist, approvals, gbans, now, proc,
                       fedvars>>

NextConf ==
    \/ \E arg \in ConfNumbers : ConfSetwarnlimit(arg)
    \/ \E arg \in ConfNumbers : ConfSetflood(arg)
    \/ \E arg \in ConfWords : ConfSetwarnaction(arg)
    \/ \E arg \in ConfWords : ConfSetfloodaction(arg)
    \/ ConfCaptcha
    \/ \E o \in Oracles(1) : ConfMessage(o)
    \/ \E o \in Oracles(1) : ConfJoin(o)

SpecConf == InitConf /\ [][NextConf]_vars

\* The argument is no threshold the command accepts: no number, below 1,
\* or a warn limit above the largest one.
OutOfRange(op, arg) ==
    \/ ~arg.isdigit
    \/ arg.int < 1
    \/ op = "setwarnlimit" /\ arg.int > WARN_LIMIT_MAX

\* C27: /setwarnlimit or /setflood with a threshold outside the accepted
\* range leaves the row of the group as it was.
C27_OutOfRangeRejected ==
    (/\ last.op \in {"setwarnlimit", "setflood"}
     /\ OutOfRange(last.op, last.msg.arg)) =>
        chats[last.chat] = last.msg.row

\* C28: every row of chats has a warn limit and a flood limit of at least
\* 1 and a warn action and a flood action among mute, kick, ban.
C28_PolicyInRange ==
    \A c \in Chats :
        chats[c].exists =>
            /\ chats[c].warn_limit >= 1
            /\ chats[c].antiflood_limit >= 1
            /\ chats[c].warn_action \in {"mute", "kick", "ban"}
            /\ chats[c].antiflood_action \in {"mute", "kick", "ban"}

\* C29: once an event of the group has been handled the group has a row
\* of chats, and /captcha after it changes the stored captcha_enabled.
C29_PolicyAfterFirstEvent ==
    hist.msgs > 0 =>
        /\ chats[ConfChat].exists
        /\ last.op = "captcha" =>
               chats[ConfChat].captcha_enabled
                   # last.msg.row.captcha_enabled

\* C30: a message of a key that has a flood row, handled when elapsed
\* seconds have passed since first_message_time: when elapsed is strictly
\* greater than the window the row becomes {first_message_time: now,
\* message_count: 1} and no action runs; otherwise (elapsed equal to the
\* window included) the count goes up by one, and when the new count
\* reaches the limit the action runs and, the platform accepting it, the
\* count restarts (no row, or a count of 0), so that the message after it
\* is the first of a new window.
C30_FloodTransition ==
    [][(hist'.msgs = hist.msgs + 1 /\ flood_control[FloodKey].exists) =>
          LET flood == flood_control[FloodKey]
              after == flood_control'[FloodKey]
              elapsed == now' - flood.first_message_time
              new_count == flood.message_count + 1
          IN  IF elapsed > FLOOD_WINDOW
              THEN /\ after = [exists |-> TRUE, message_count |-> 1,
                               first_message_time |-> now']
                   /\ ~Has(last'.trace, "flood")
              ELSE IF new_count >= chats[FloodChat].antiflood_limit
              THEN /\ Has(last'.trace, "flood")
                   /\ \/ HasFailed(last'.trace)
                      \/ ~after.exists
                      \/ after.message_count = 0
              ELSE /\ after = [flood EXCEPT !.message_count = new_count]
                   /\ ~Has(last'.trace, "flood")]_vars

(***************************************************************************)
(* Specification of two messages of one key in flight in the flood         *)
(* detector.  Each handler runs the statements of antiflood_check one at a *)
(* time: SELECT of the row, INSERT or UPDATE of the count, the flood       *)
(* action, DELETE.  No lock and no transaction surrounds them, so the      *)
(* statements of two handlers interleave freely.  All messages arrive      *)
(* within the window of the first, and the platform answers every call.    *)
(***************************************************************************)
FreshFloodRow(t) ==
    [exists |-> TRUE, message_count |-> 1, first_message_time |-> t]

\* SELECT * FROM flood_control
FRead(p) ==
    LET flood == flood_control[FloodKey]
    IN  /\ proc[p].pc = "start"
        /\ hist.msgs < MaxPosts
        /\ CanPost(FloodChat, FloodUser)
        /\ FloodArmed(FloodChat)
        /\ flood.exists => now - flood.first_message_time < FLOOD_WINDOW
        /\ proc' = [proc EXCEPT ![p] =
                       IF flood.exists
                       THEN [Idle EXCEPT !.pc = "read",
                                         !.count = flood.message_count]
                       ELSE [Idle EXCEPT !.pc = "absent"]]
        /\ hist' = [hist EXCEPT !.msgs = @ + 1]
        /\ UNCHANGED <<chats, warnings, flood_control, blacklist, approvals,
                       gbans, status, now, last, fedvars>>

\* INSERT INTO flood_control: refused by the primary key when the other
\* handler has inserted the row meanwhile (execute logs it and returns).
FInsert(p) ==
    /\ proc[p].pc = "absent"
    /\ flood_control' =
           IF flood_control[FloodKey].exists THEN flood_control
           ELSE [flood_control EXCEPT ![FloodKey] = FreshFloodRow(now)]
    /\ proc' = [proc EXCEPT ![p].pc = "done"]
    /\ UNCHANGED <<chats, warnings, blacklist, approvals, gbans, status,
                   now, last, hist, fedvars>>

\* UPDATE flood_control SET message_count = new_count
FUpdate(p) ==
    LET new_count == proc[p].count + 1
    IN  /\ proc[p].pc = "read"
        /\ flood_control' =
               IF flood_control[FloodKey].exists
               THEN [flood_control EXCEPT
                        ![FloodKey].message_count = new_count]
               ELSE flood_control
        /\ proc' = [proc EXCEPT ![p].pc =
                       IF new_count >= chats[FloodChat].antiflood_limit
                       THEN "due" ELSE "done"]
        /\ UNCHANGED <<chats, warnings, blacklist, approvals, gbans,
                       status, now, last, hist, fedvars>>

\* new_count >= antiflood_limit: the flood action
FAct(p) ==
    /\ proc[p].pc = "due"
    /\ status' = Punish(Begin, chats[FloodChat].antiflood_action, FloodChat,
                        FloodUser, AllOk).status
    /\ hist' = [hist EXCEPT !.fires = @ + 1]
    /\ proc' = [proc EXCEPT ![p].pc = "acted", ![p].fired = TRUE]
    /\ UNCHANGED <<chats, warnings, flood_control, blacklist, approvals,
                   gbans, now, last, fedvars>>

\* DELETE FROM flood_control
FDelete(p) ==
    /\ proc[p].pc = "acted"
    /\ flood_control' = [flood_control EXCEPT ![FloodKey] = NoRow]
    /\ proc' = [proc EXCEPT ![p].pc = "done"]
    /\ UNCHANGED <<chats, warnings, blacklist, approvals, gbans, status,
                   now, last, hist, fedvars>>

NextFloodConc ==
    \/ \E p \in Procs : FRead(p)
    \/ \E p \in Procs : FInsert(p)
    \/ \E p \in Procs : FUpdate(p)
    \/ \E p \in Procs : FAct(p)
    \/ \E p \in Procs : FDelete(p)
    \/ \E p \in Procs : CReturn(p)

SpecFloodConc == InitFlood /\ [][NextFloodConc]_vars

C32_FailureReported ==
    (Has(last.trace, "escalate") /\ ActionFailed(last.trace)) =>
        /\ Len(warnings[<<last.chat, last.user>>]) = last.before + 1
        /\ Has(last.trace, "reply_failed")

(***************************************************************************)
(* Specification of several keys (SpecKeys): two members in one group and  *)
(* one of them in a second group as well, warned by an administrator's     *)
(* commands and by the blacklist's warn action, with the flood detector on *)
(* in the first group; the administrator removes and clears warnings.      *)
(***************************************************************************)
KeyTargets == {<<"c1", "u1">>, <<"c1", "u2">>, <<"c2", "u1">>}

KeyAdmin == "adm"

InitKeys ==
    /\ InitTables
    /\ chats = [c \in Chats |->
                   CASE c = "c1" -> [DefaultChatRow EXCEPT
                                        !.antiflood_enabled = TRUE,
                                        !.antiflood_limit = 2,
                                        !.warn_limit = 2]
                     [] c = "c2" -> DefaultChatRow
                     [] OTHER    -> NoRow]
    /\ blacklist = [c \in Chats |->
                       IF chats[c].exists
                       THEN <<[trigger_word |-> "spam", action |-> "warn"]>>
                       ELSE <<>>]

KWarn(k, o) ==
    \E h \in {warn_command(Begin, k[1], KeyAdmin, k[2], TRUE, TRUE, o)} :
        /\ hist.warns < MaxWarns
        /\ Canonical(h, o)
        /\ Commit(h, "warn", k[1], k[2], NoMsg)
        /\ hist' = WarnHist(h.trace, TRUE)
        /\ UNCHANGED <<chats, blacklist, approvals, gbans, now, proc,
                       fedvars>>

KMessage(k, text, o) ==
    LET msg == [text |-> text, ctype |-> "text"]
        rq == [flood |-> TRUE, link |-> TRUE, spam |-> TRUE, bl |-> TRUE]
    IN  \E h \in {message_handler_main(Begin, k[1], k[2], msg, now, rq,
                                        o)} :
        /\ hist.warns < MaxWarns
        /\ hist.msgs < MaxUpdates
        /\ CanPost(k[1], k[2])
        /\ Canonical(h, o)
        /\ Commit(h, "message", k[1], k[2], msg)
        /\ hist' = [WarnHist(h.trace, TRUE) EXCEPT !.msgs = @ + 1]
        /\ UNCHANGED <<chats, blacklist, approvals, gbans, now, proc,
                       fedvars>>

KUnwarn(k, qa) ==
    \E h \in {unwarn_command(Begin, k[1], KeyAdmin, k[2], qa, AllOk)} :
        /\ Commit(h, "unwarn", k[1], k[2], NoMsg)
        /\ UNCHANGED <<chats, blacklist, approvals, gbans, now, hist, proc,
                       fedvars>>

KClearwarns(k, qa) ==
    \E h \in {clearwarns_command(Begin, k[1], KeyAdmin, k[2], qa, AllOk)} :
        /\ Commit(h, "clearwarns", k[1], k[2], NoMsg)
        /\ UNCHANGED <<chats, blacklist, approvals, gbans, now, hist, proc,
                       fedvars>>

NextKeys ==
    \/ \E k \in KeyTargets, o \in Oracles(1) : KWarn(k, o)
    \/ \E k \in KeyTargets, text \in {{}, {"spam"}}, o \in Oracles(1) :
           KMessage(k, text, o)
    \/ \E k \in KeyTargets, qa \in BOOLEAN : KUnwarn(k, qa)
    \/ \E k \in KeyTargets : KClearwarns(k, TRUE)

SpecKeys == InitKeys /\ [][NextKeys]_vars

\* The command of the step was let through by @admin_only.
LetThrough == ~Has(last'.trace, "reply_admin_only")

\* C33: /unwarn on a key with n >= 1 warnings deletes the most recent one
\* and leaves the n - 1 before it; with n = 0 it changes nothing; the
\* warnings of every other key stay as they are.
C33_UnwarnRemovesLast ==
    [][(last'.op = "unwarn" /\ LetThrough) =>
          LET k == <<last'.chat, last'.user>>
              n == Len(warnings[k])
          IN  /\ n >= 1 => warnings'[k] = SubSeq(warnings[k], 1, n - 1)
              /\ n = 0 => warnings'[k] = warnings[k]
              /\ \A j \in Keys \ {k} : warnings'[j] = warnings[j]]_vars

\* /unwarn has removed the later of two warnings of different issuers
\* while another key held a warning.
C33_UnwarnedOfTwo ==
    /\ last.op = "unwarn"
    /\ last.before = 2
    /\ Has(last.trace, "delete_last_warning")
    /\ warnings[<<last.chat, last.user>>] = <<[warned_by |-> KeyAdmin]>>
    /\ \E j \in Keys \ {<<last.chat, last.user>>} : warnings[j] # <<>>

\* The step leaves key k without any of the warnings it held, or with at
\* least two fewer.
DroppedTogether(k) ==
    \/ Len(warnings[k]) - Len(warnings'[k]) >= 2
    \/ /\ warnings[k] # <<>>
       /\ warnings'[k] = <<>>
       /\ ~(last'.op = "unwarn" /\ Len(warnings[k]) = 1)

\* C34: the warnings of a key are deleted together only by a handler for
\* that key that is /clearwarns or in which the escalation fired; a
\* message without escalation, /unwarn, /setwarnlimit and /setwarnaction
\* remove at most one warning of a key.
C34_ResetOnlyByEscalationOrClear ==
    [][\A k \in Keys :
          DroppedTogether(k) =>
              /\ k = <<last'.chat, last'.user>>
              /\ \/ last'.op = "clearwarns"
                 \/ /\ last'.op \in {"warn", "message"}
                    /\ Escalated(last'.trace)]_vars

\* A warning of the pipeline has fired the escalation and left the key
\* without the warnings it held.
C34_EscalationReset ==
    /\ last.op = "message"
    /\ last.before >= 1
    /\ Escalated(last.trace)
    /\ warnings[<<last.chat, last.user>>] = <<>>

\* C35: when the member a math challenge is for presses one of its
\* options, the handler lifts the member's restrictions if the option is
\* the answer and removes the member from the group if it is not: every
\* such press calls the platform to verify or to remove.
C35_MathAnswerDecides ==
    (/\ last.op = "callback"
     /\ last.msg.data.action = "math"
     /\ last.msg.from = last.msg.data.target) =>
        IF last.msg.data.right
        THEN Has(last.trace, "restrict_chat_member_all")
        ELSE Has(last.trace, "ban_chat_member")

(***************************************************************************)
(* Specification of two federation commands in flight for one federation.  *)
(* Each handler runs the statements of fban_command / funban_command one   *)
(* at a time: SELECT of the federation's row, UPDATE of banned_users with  *)
(* the list computed from the row it read, then the calls on the member    *)
(* groups.  No lock and no transaction surrounds them.  The commands are   *)
(* sent in the home group by the federation's owner and the platform       *)
(* answers every call.                                                     *)
(***************************************************************************)
FcTargets == {"u1", "u2"}

\* The state /newfed of the owner, /joinfed of the home group and the
\* federation bans issued so far have left.
InitFedConc ==
    /\ chats = [c \in Chats |-> DefaultChatRow]
    /\ blacklist = [c \in Chats |-> <<>>]
    /\ warnings = [k \in Keys |-> <<>>]
    /\ flood_control = [k \in Keys |-> NoRow]
    /\ approvals = {}
    /\ gbans = {}
    /\ now = 0
    /\ proc = [p \in Procs |-> Idle]
    /\ fed_chats = [c \in Chats |-> IF c = FedHome THEN Fed ELSE "none"]
    /\ \E banned \in SUBSET FcTargets :
           /\ federations =
                  [f \in Feds |->
                      IF f = Fed
                      THEN [NewFedRow(FedOwner) EXCEPT
                               !.banned_users = banned]
                      ELSE NoRow]
           /\ status = [k \in Keys |->
                           CASE k[2] = "adm"   -> "administrator"
                             [] k[2] = "owner" -> "left"
                             [] k[1] = FedHome /\ k[2] \in banned
                                               -> "kicked"
                             [] OTHER          -> "member"]
    /\ last = [op |-> "none", chat |-> FedHome, user |-> FedTarget,
               msg |-> NoMsg, trace |-> <<>>, raised |-> FALSE,
               before |-> 0, approved |-> FALSE, role |-> "member",
               rules |-> {}]
    /\ hist = [warns |-> 0, execs |-> 0, pure |-> TRUE,
               msgs |-> 0, first |-> 0, fires |-> 0, gap |-> -1,
               due |-> FALSE, gate |-> "none", joined |-> 0]

\* SELECT * FROM federations: the handler keeps the row it read.
FcRead(p, kind, target) ==
    /\ proc[p].pc = "start"
    /\ FedAuthorized(FedHome, FedOwner)
    /\ proc' = [proc EXCEPT ![p] =
                   [pc |-> "read", count |-> 0, removed |-> 0,
                    fired |-> FALSE, kind |-> kind, target |-> target,
                    fed |-> federations[fed_chats[FedHome]]]]
    /\ UNCHANGED <<chats, warnings, flood_control, blacklist, approvals,
                   gbans, status, now, last, hist, fedvars>>

\* UPDATE federations SET banned_users = the list computed from the row
\* the handler read.
FcWrite(p) ==
    LET row == IF proc[p].kind = "fban"
               THEN FbanRow(proc[p].fed, proc[p].target)
               ELSE FunbanRow(proc[p].fed, proc[p].target)
    IN  /\ proc[p].pc = "read"
        /\ federations' = [federations EXCEPT
                              ![Fed].banned_users = row.banned_users]
        /\ proc' = [proc EXCEPT ![p].pc = "written"]
        /\ UNCHANGED <<chats, warnings, flood_control, blacklist, approvals,
                       gbans, status, now, last, hist, fed_chats>>

\* The loop over the member groups.
FcCalls(p) ==
    /\ proc[p].pc = "written"
    /\ status' = CallEach(Begin,
                          IF proc[p].kind = "fban" THEN "ban_chat_member"
                          ELSE "unban_chat_member",
                          MemberChats(Fed), proc[p].target, AllOk).status
    /\ proc' = [proc EXCEPT ![p].pc = "done"]
    /\ UNCHANGED <<chats, warnings, flood_control, blacklist, approvals,
                   gbans, now, last, hist, fedvars>>

\* The handlers have returned; the next commands may arrive.
FcReturn ==
    /\ \A p \in Procs : proc[p].pc \in {"start", "done"}
    /\ \E p \in Procs : proc[p].pc = "done"
    /\ proc' = [p \in Procs |-> Idle]
    /\ UNCHANGED <<chats, warnings, flood_control, blacklist, approvals,
                   gbans, status, now, last, hist, fedvars>>

NextFedConc ==
    \/ \E p \in Procs, kind \in {"fban", "funban"}, target \in FcTargets :
           FcRead(p, kind, target)
    \/ \E p \in Procs : FcWrite(p)
    \/ \E p \in Procs : FcCalls(p)
    \/ FcReturn

SpecFedConc == InitFedConc /\ [][NextFedConc]_vars

InFlight(pc, c, f) ==
    [pc |-> pc, count |-> 0, removed |-> 0, fired |-> FALSE,
     chat |-> c, fed |-> f]

\* newfed_command: INSERT INTO federations, one statement.
CNewfed(f, owner) ==
    /\ ~federations[f].exists
    /\ federations' = [federations EXCEPT ![f] = NewFedRow(owner)]
    /\ UNCHANGED <<chats, warnings, flood_control, blacklist, approvals,
                   gbans, status, now, last, hist, proc, fed_chats>>

\* joinfed_command: SELECT * FROM federations WHERE fed_id
JCheck(p, c, f) ==
    /\ proc[p].pc = "start"
    /\ proc' = [proc EXCEPT ![p] =
                   InFlight(IF federations[f].exists THEN "found"
                            ELSE "done", c, f)]
    /\ UNCHANGED <<chats, warnings, flood_control, blacklist, approvals,
                   gbans, status, now, last, hist, fedvars>>

\* joinfed_command: INSERT INTO fed_chats ... ON CONFLICT DO UPDATE
JUpsert(p) ==
    /\ proc[p].pc = "found"
    /\ fed_chats' = JoinFedChats(fed_chats, proc[p].chat, proc[p].fed)
    /\ proc' = [proc EXCEPT ![p].pc = "done"]
    /\ UNCHANGED <<chats, warnings, flood_control, blacklist, approvals,
                   gbans, status, now, last, hist, federations>>

\* delfed_command: SELECT * FROM federations and the check of the sender
DCheck(p, f, actor) ==
    /\ proc[p].pc = "start"
    /\ proc' = [proc EXCEPT ![p] =
                   InFlight(IF /\ federations[f].exists
                               /\ DelfedAllowed(federations[f], actor)
                            THEN "allowed" ELSE "done", "none", f)]
    /\ UNCHANGED <<chats, warnings, flood_control, blacklist, approvals,
                   gbans, status, now, last, hist, fedvars>>

\* delfed_command: DELETE FROM fed_chats WHERE fed_id
DChats(p) ==
    /\ proc[p].pc = "allowed"
    /\ fed_chats' = DelFedChats(fed_chats, proc[p].fed)
    /\ proc' = [proc EXCEPT ![p].pc = "emptied"]
    /\ UNCHANGED <<chats, warnings, flood_control, blacklist, approvals,
                   gbans, status, now, last, hist, federations>>

\* delfed_command: DELETE FROM federations WHERE fed_id
DFed(p) ==
    /\ proc[p].pc = "emptied"
    /\ federations' = [federations EXCEPT ![proc[p].fed] = NoRow]
    /\ proc' = [proc EXCEPT ![p].pc = "done"]
    /\ UNCHANGED <<chats, warnings, flood_control, blacklist, approvals,
                   gbans, status, now, last, hist, fed_chats>>

NextRegConc ==
    \/ \E f \in Feds, owner \in RegOwners : CNewfed(f, owner)
    \/ \E p \in Procs, c \in RegChats, f \in Feds : JCheck(p, c, f)
    \/ \E p \in Procs : JUpsert(p)
    \/ \E p \in Procs, f \in Feds, actor \in RegActors : DCheck(p, f, actor)
    \/ \E p \in Procs : DChats(p)
    \/ \E p \in Procs : DFed(p)
    \/ \E p \in Procs : CReturn(p)

SpecRegConc == InitFed /\ [][NextRegConc]_vars

ActionTrace(tr) ==
    SelectSeq(tr, LAMBDA e : e.ev \in ActionCalls \cup {"escalate"})

KickIssued(tr) ==
    \E i \in 1..(Len(tr) - 1) :
        /\ tr[i].ev = "ban_chat_member"
        /\ tr[i].ok
        /\ tr[i + 1].ev = "unban_chat_member"

\* C39: after a handler that issued a kick, the unban refused by the
\* platform or not, the user is not banned in the group.
C39_KickNeverBans ==
    KickIssued(last.trace) => status[<<last.chat, last.user>>] # "kicked"

\* C40: a message or a warn command for one key leaves the warnings and
\* the flood row of every other key as they were, the same user in another
\* group and another user of the same group included.
C40_OtherKeysUntouched ==
    [][last'.op \in {"message", "warn"} =>
          \A j \in Keys \ {<<last'.chat, last'.user>>} :
              /\ warnings'[j] = warnings[j]
              /\ flood_control'[j] = flood_control[j]]_vars

\* A handler has escalated on a key and emptied it while the same user in
\* the other group holds a warning and the other user of the group a flood
\* row.
C40_OthersHeld ==
    /\ last.op \in {"message", "warn"}
    /\ Escalated(last.trace)
    /\ warnings[<<last.chat, last.user>>] = <<>>
    /\ \E c \in Chats \ {last.chat} : warnings[<<c, last.user>>] # <<>>
    /\ \E u \in Users \ {last.user} : flood_control[<<last.chat, u>>].exists

====
